---- MODULE Spec2Model ----
(***************************************************************************)
(* A model of the vssm-tool editor extension: the file generators of       *)
(* src/cmd/generateConfigs.ts, the tree providers of src/tree-views and    *)
(* the 'Run NPM Task' command of src/cmd/npm-run-task.ts.                   *)
(*                                                                         *)
(* An async handler is a sequence of synchronous segments separated by its *)
(* awaits; every action below is one such segment of one invocation.       *)
(***************************************************************************)
EXTENDS Integers, Sequences, FiniteSets, TLC

VARIABLES
    fs,                \* generateConfigs: target URI -> file system entry
    workspaceFolders,  \* generateConfigs: workspace.workspaceFolders, a sequence of folder URIs
    config,            \* generateConfigs: the GenerateCommand captured by the registered callback
    h,                 \* generateConfigs: slot -> the locals of the generateConfig invocation in it
    invocations,       \* generateConfigs: number of invocations dispatched so far
    writeCount,        \* generateConfigs: target URI -> number of completed writes
    overwrites,        \* generateConfigs: number of completed writes that replaced an existing file
    disk,              \* the paths that exist in the workspace and the user's home
    data,              \* FixedDataProvider.data: the root nodes of the fixed-data view
    settingsNodes,     \* VSCodeSettingsProvider.settingsNodes: the nodes of the last scan
    returned,          \* the last root getChildren call: its view, nodes and message
    edit,              \* the editItem invocation waiting at its input box, if any
    treeCommands,      \* number of add, delete and edit commands dispatched
    diskChanges,       \* number of changes made to disk from outside
    settings,          \* the user's settings.json: full key -> value, Undefined when not set
    npm,               \* the locals of the showNpmTasks invocation, and what it showed and ran
    naming,            \* generateConfigs: one invocation followed from the folder URI to its target path
    ignoreFile,        \* addToIgnore: the ignore file on disk
    ig,                \* addToIgnore: slot -> the locals of the addToIgnore invocation in it
    act,               \* extension.ts: the locals of activate and the host's command registry
    link               \* the provideDocumentLinks call: its locals, the token, what it touched

genVars == <<fs, workspaceFolders, config, h, invocations, writeCount, overwrites>>

treeVars == <<disk, data, settingsNodes, returned, edit, treeCommands, diskChanges>>

npmVars == <<settings, npm>>

nameVars == <<naming>>

ignoreVars == <<ignoreFile, ig>>

actVars == <<act>>

linkVars == <<link>>

vars == <<genVars, treeVars, npmVars, nameVars, ignoreVars, actVars, linkVars>>

----------------------------------------------------------------------------
(* Bounds *)

\* total number of generate-command invocations the host dispatches
MaxInvocations == 2

\* the invocations that can be in flight at the same time
Slots == {"h1", "h2"}

----------------------------------------------------------------------------
(* Values *)

Undefined == "undefined"

\* join(parts, sep) of Array.prototype.join, on strings
RECURSIVE JoinStr(_, _)
JoinStr(parts, sep) ==
    IF parts = <<>> THEN ""
    ELSE IF Len(parts) = 1 THEN Head(parts)
    ELSE Head(parts) \o sep \o JoinStr(Tail(parts), sep)

\* A folder URI is modelled by its path, split at '/': "/proj" is <<"", "proj">>
UriProj == <<"", "proj">>
UriRoot == <<"", "">>
Folders == {UriProj, UriRoot}

\* Uri.toString() of a file URI
UriToString(uri) == "file://" \o JoinStr(uri, "/")

----------------------------------------------------------------------------
(* The tree views before any of their callbacks ran *)

\* the files the tree views look for
UserSettingsPath == "/home/u/.config/Code/User/settings.json"
RemoteSettingsPath == "/home/u/.vscode-server/data/Machine/settings.json"
FolderSettingsPath == "/proj/.vscode/settings.json"
PackageJsonPath == "/proj/package.json"
LodashModulePath == "/proj/node_modules/lodash"
TasksJsonPath == "/proj/.vscode/tasks.json"

\* no root getChildren call has returned yet
NoCall == [view |-> "", nodes |-> <<>>, info |-> ""]

\* no editItem is waiting
NoEdit == [pc |-> "idle", element |-> [label |-> "", collapsibleState |-> "None", children |-> <<>>],
           live |-> FALSE]

\* a disk with the user's settings and a package.json
DiskAtStart == {UserSettingsPath, PackageJsonPath}

\* the providers as their constructors leave them
TreeIdle ==
    /\ data = <<>>
    /\ settingsNodes = <<>>
    /\ returned = NoCall
    /\ edit = NoEdit
    /\ treeCommands = 0
    /\ diskChanges = 0

\* the keys of the task source: the one package.json declares (line 194) and
\* the one getTaskSource reads (npm-run-task.ts lines 58-60)
DeclaredTaskSourceKey == "runNpmTask.npmTaskSource"
ReadTaskSourceKey == "vssm-tool.npmTaskSource"
SettingKeys == {DeclaredTaskSourceKey, ReadTaskSourceKey}

\* no showNpmTasks has run
IdleNpm ==
    [ pc         |-> "idle",
      runs       |-> 0,        \* invocations so far
      taskSource |-> "",       \* const taskSource
      items      |-> <<>>,     \* let items
      title      |-> "",       \* let title
      thrown     |-> "",       \* the message of the Error a getter threw, "" for none
      selected   |-> <<>>,     \* the selected composite task, as a one-element sequence
      depIndex   |-> 0,        \* index in dependsOn of the task being executed
      msgs       |-> <<>>,     \* the messages shown by the current invocation
      executed   |-> <<>> ]    \* the tasks handed to tasks.executeTask

\* the Run NPM Task command as its registration leaves it, with no user
\* setting
NpmIdle ==
    /\ settings = [k \in SettingKeys |-> Undefined]
    /\ npm = IdleNpm

\* no invocation is followed to its target path
IdleNaming ==
    [ pc        |-> "idle",
      path      |-> <<>>,      \* currentUri.path
      fileName  |-> <<>>,      \* const fileName
      configUri |-> [path |-> <<>>, query |-> <<>>, fragment |-> <<>>],
      statPath  |-> <<>>,      \* the path workspace.fs.stat was asked about
      writePath |-> <<>>,      \* the path workspace.fs.writeFile wrote
      msgs      |-> <<>> ]
NameIdle == naming = IdleNaming

\* the locals of an addToIgnore that has not been invoked
IdleIgnore ==
    [ pc           |-> "idle",
      runs         |-> 0,        \* invocations dispatched to the slot
      relativePath |-> <<>>,     \* const relativePath
      readOutcome  |-> "",       \* how the read of line 35 ended
      atRead       |-> <<>>,     \* the bytes of the ignore file when it was read
      content      |-> <<>>,     \* let content
      newContent   |-> <<>>,     \* const newContent
      wrote        |-> FALSE,    \* the write of line 53 completed
      before       |-> <<>>,     \* the bytes of the ignore file just before that write
      after        |-> <<>>,     \* the bytes of the ignore file just after it
      msgs         |-> <<>> ]    \* the messages shown by the invocation

\* no addToIgnore has run, and there is no ignore file
IgnoreIdle ==
    /\ ignoreFile = [exists |-> FALSE, bytes |-> <<>>]
    /\ ig = [s \in Slots |-> IdleIgnore]

\* activate has not been called
ActIdle == act = [pc |-> "idle"]

\* provideDocumentLinks before the host calls it; cancelledAt is the number
\* of lines scanned when the host requested cancellation (-1: not requested
\* during the scan)
IdleLink ==
    [pc |-> "idle", fileName |-> <<"">>, lines |-> <<>>, token |-> FALSE,
     tokenAtCall |-> FALSE, cancelledAt |-> -1, consults |-> 0,
     lineIndex |-> 0, links |-> <<>>, fsAccesses |-> 0, result |-> <<>>,
     error |-> ""]

\* the link provider has not been called
LinkIdle == link = IdleLink

\* the parts of the extension that the specifications of the generators, the
\* tree views and the Run NPM Task command leave alone
RestIdle == NameIdle /\ IgnoreIdle /\ ActIdle /\ LinkIdle

\* generateConfig as its command registration leaves it, for the
\* specifications that exercise other parts
GenIdle ==
    /\ config = [ fileName |-> "", hasFileNameGenerator |-> FALSE, commandName |-> "",
                  templateName |-> "", defaultTemplatePath |-> "", hasAutoContent |-> FALSE ]
    /\ fs = << >>
    /\ h = << >>
    /\ invocations = 0
    /\ writeCount = << >>
    /\ overwrites = 0

----------------------------------------------------------------------------
(* src/cmd/generateConfigs.ts: the three GenerateCommand configurations *)

GenerateClangFormatCommand ==
    [ fileName            |-> ".clang-format",
      hasFileNameGenerator |-> FALSE,
      commandName         |-> "vssm-tool.generateClangFormat",
      templateName        |-> "ClangFormat",
      defaultTemplatePath |-> "DefaultTemplate.clang-format",
      hasAutoContent      |-> FALSE ]

GenerateWorkspaceConfigCommand ==
    [ fileName            |-> ".code-workspace",
      hasFileNameGenerator |-> TRUE,
      commandName         |-> "vssm-tool.generateWorkspaceConfig",
      templateName        |-> "WorkspaceConfig",
      defaultTemplatePath |-> "DefaultTemplate.code-workspace",
      hasAutoContent      |-> FALSE ]

GenerateEditorConfigCommand ==
    [ fileName            |-> ".editorconfig",
      hasFileNameGenerator |-> FALSE,
      commandName         |-> "vssm-tool.generateEditorConfig",
      templateName        |-> "EditorConfig",
      defaultTemplatePath |-> "DefaultTemplate.editorconfig",
      hasAutoContent      |-> TRUE ]

GenerateCommands ==
    {GenerateClangFormatCommand, GenerateWorkspaceConfigCommand, GenerateEditorConfigCommand}

\* uri.path.split('/').filter(Boolean): the non-empty segments, in order
FilterBoolean(segments) == SelectSeq(segments, LAMBDA seg : seg # "")

\* GenerateWorkspaceConfigCommand.fileNameGenerator
fileNameGenerator(uri) ==
    LET segs == FilterBoolean(uri)
        folderName == IF segs = <<>> THEN "workspace" ELSE segs[Len(segs)]
    IN  folderName \o ".code-workspace"

\* line 48: the generator function when the command has one, else the fixed name
FileNameOf(cfg, uri) ==
    IF cfg.hasFileNameGenerator THEN fileNameGenerator(uri) ELSE cfg.fileName

\* line 49: Uri.parse(`${currentUri.toString()}/${fileName}`), kept as its string
ConfigUriOf(uri, fileName) == UriToString(uri) \o "/" \o fileName

\* the targets a generate command can address in the model
ConfigUrisOf(cfg) == { ConfigUriOf(u, FileNameOf(cfg, u)) : u \in Folders }

\* line 92: resolve(__dirname, '..', config.defaultTemplatePath)
ExtensionDir == "/ext"
DefaultTemplatePathOf(cfg) == ExtensionDir \o "/" \o cfg.defaultTemplatePath

----------------------------------------------------------------------------
(* The host: file system entries, template files, settings *)

\* FileStat.type of a target, or the reason stat rejects
NoEntry  == [type |-> "NotFound",  content |-> <<>>]
DirEntry == [type |-> "Directory", content |-> <<>>]
DeniedEntry == [type |-> "NoPermissions", content |-> <<>>]
FileEntry(bytes) == [type |-> "File", content |-> bytes]

\* a file that is in the folder before any generator ran
OldBytes == <<"old content">>

\* what a target can be before the first command: anything in the folder
\* /proj, absent or a file in the root folder
InitialEntries(uri) ==
    IF uri = UriProj THEN {NoEntry, DirEntry, DeniedEntry, FileEntry(OldBytes)}
    ELSE {NoEntry, FileEntry(OldBytes)}

\* values of the settings generate<TemplateName>.customTemplatePath and .template
CustomTemplatePathValues == {"", "/home/u/custom.tpl"}
TemplateValues == {"", "default", "DEFAULT", "/home/u/other.tpl"}

\* the bytes of a template file: a static blob, one per path
FileBytes(path) == <<"bytes of ", path>>

\* every template file a generator can be pointed at
TemplatePaths ==
    { DefaultTemplatePathOf(c) : c \in GenerateCommands }
      \cup (CustomTemplatePathValues \ {""}) \cup (TemplateValues \ {""})

\* FileSystemError.name of the rejection of workspace.fs.stat
StatErrorName(entry) ==
    IF entry.type = "NotFound" THEN "EntryNotFound (FileSystemError)"
    ELSE "NoPermissions (FileSystemError)"

StatErrorMessage(configUri) == "Unable to stat " \o configUri
ReadErrorMessage(path) == "ENOENT: no such file or directory, open '" \o path \o "'"
WriteErrorMessage(configUri) == "Unable to write file " \o configUri
AutoErrorMessage == "auto content generator failed"

----------------------------------------------------------------------------
(* GenerateEditorConfigCommand.generateAutoContent, lines 174-241 *)

\* require('os').EOL of the platform the extension host runs on
OsEOL == "\n"

\* `${value}` of a number below ten
DecimalString(n) == <<"0", "1", "2", "3", "4", "5", "6", "7", "8", "9">>[n + 1]

\* `${value}` of a boolean
BoolString(b) == IF b THEN "true" ELSE "false"

\* eolMap[eolKey], <<>> when the key is not in the map
eolMap(eolKey) ==
    IF eolKey = "\r\n" THEN <<"crlf">>
    ELSE IF eolKey = "\n" THEN <<"lf">>
    ELSE <<>>

\* encodingMap[encoding], <<>> when the encoding is not in the map
encodingMap(encoding) ==
    CASE encoding = "iso88591" -> <<"latin1">>
      [] encoding = "utf8"     -> <<"utf-8">>
      [] encoding = "utf8bom"  -> <<"utf-8-bom">>
      [] encoding = "utf16be"  -> <<"utf-16-be">>
      [] encoding = "utf16le"  -> <<"utf-16-le">>
      [] OTHER                 -> <<>>

\* addSetting(key, value): one line when the value is defined; an undefined
\* value is the empty sequence, a defined one a one-element sequence
addSetting(key, value) ==
    IF value = <<>> THEN <<>> ELSE << key \o " = " \o value[1] >>

\* Buffer.from(str): no bytes for the empty string
BufferFrom(str) == IF str = "" THEN <<>> ELSE <<str>>

\* the settings the generator reads: generateEditorConfig.generateAuto,
\* editor.insertSpaces, editor.tabSize (<<>> when unset), files.eol,
\* files.encoding, files.trimTrailingWhitespace, files.insertFinalNewline
EditorProfiles ==
    { [ insertSpaces |-> TRUE,  tabSize |-> <<4>>, eol |-> "auto",  encoding |-> "utf8",
        trimTrailingWhitespace |-> FALSE, insertFinalNewline |-> FALSE ],
      [ insertSpaces |-> FALSE, tabSize |-> <<>>,  eol |-> "\r\n",  encoding |-> "gbk",
        trimTrailingWhitespace |-> TRUE,  insertFinalNewline |-> TRUE ] }

\* GenerateAutoEnabled with the flag ignored
GenerateAutoEnabled_Always(st) == TRUE

\* line 179: !!ec.get('generateAuto')
GenerateAutoEnabled(st) == st.generateAuto

\* the snapshot of an invocation that has read none of these settings
NoSnapshot ==
    [ generateAuto |-> FALSE, insertSpaces |-> FALSE, tabSize |-> <<>>, eol |-> "",
      encoding |-> "", trimTrailingWhitespace |-> FALSE, insertFinalNewline |-> FALSE ]

\* what one run of the generator reads: with generateAuto false it returns at
\* line 182 and reads no editor or files setting
EditorSnapshots ==
    { [ generateAuto |-> TRUE, insertSpaces |-> e.insertSpaces, tabSize |-> e.tabSize,
        eol |-> e.eol, encoding |-> e.encoding,
        trimTrailingWhitespace |-> e.trimTrailingWhitespace,
        insertFinalNewline |-> e.insertFinalNewline ] : e \in EditorProfiles }
      \cup {NoSnapshot}

generateAutoContent(st) ==
    IF ~GenerateAutoEnabled(st) THEN BufferFrom("")
    ELSE
      LET eolSetting == IF st.eol = "" THEN "auto" ELSE st.eol
          eolKey == IF eolSetting = "auto" THEN OsEOL ELSE eolSetting
          settingsLines ==
              << "# EditorConfig is awesome: https://EditorConfig.org",
                 "",
                 "# top-most EditorConfig file",
                 "root = true",
                 "",
                 "[*]" >>
              \o addSetting("indent_style", <<IF st.insertSpaces THEN "space" ELSE "tab">>)
              \o addSetting("indent_size",
                            IF st.tabSize = <<>> THEN <<>> ELSE <<DecimalString(st.tabSize[1])>>)
              \o addSetting("end_of_line", eolMap(eolKey))
              \o addSetting("charset", encodingMap(st.encoding))
              \o addSetting("trim_trailing_whitespace", <<BoolString(st.trimTrailingWhitespace)>>)
              \o addSetting("insert_final_newline", <<BoolString(st.insertFinalNewline)>>)
              \o (IF st.insertFinalNewline THEN <<"">> ELSE <<>>)
      IN  BufferFrom(JoinStr(settingsLines, eolKey))

----------------------------------------------------------------------------
(* generateConfig.writeFile, lines 88-110: the template that is read *)

\* the letters of the template values in lower case, for the /i flag
LowerCase(str) == IF str = "DEFAULT" THEN "default" ELSE str

\* MatchesDefault without the /i flag
MatchesDefault_CaseSensitive(template) == template = "default"

\* /^default$/i.test(template)
MatchesDefault(template) == LowerCase(template) = "default"

\* line 91: wc.get('template') || 'default'
TemplateOrDefault(value) == IF value = "" THEN "default" ELSE value

\* lines 105 and 109
TemplateSettingPath(template, defaultTemplatePath) ==
    IF MatchesDefault(template) THEN defaultTemplatePath ELSE template

\* lines 96-110: customReadable is the outcome of the read of line 101
SelectTemplatePath(customTemplatePath, customReadable, template, defaultTemplatePath) ==
    IF customTemplatePath # "" /\ customReadable
    THEN customTemplatePath
    ELSE TemplateSettingPath(template, defaultTemplatePath)

----------------------------------------------------------------------------
(* generateConfig, lines 36-125: the locals of one invocation *)

\* the uri argument of a command invoked without a selected folder
NoUri == <<>>

IdleHandler ==
    [ pc              |-> "idle",
      uri             |-> NoUri,      \* currentUri
      fileName        |-> "",
      configUri       |-> "",
      existedAtInvoke |-> FALSE,      \* the target was a regular file when the command was invoked
      statType        |-> "",         \* what the stat of line 53 found
      st              |-> NoSnapshot, \* the settings generateAutoContent read
      autoRan         |-> FALSE,
      content         |-> <<>>,       \* the buffer generateAutoContent returned
      wcRead          |-> FALSE,
      customTemplatePath |-> "",      \* wc.get('customTemplatePath')
      templateSetting |-> "",         \* wc.get('template')
      template        |-> "",         \* the local of line 91
      customRead      |-> "none",     \* outcome of the read of line 101: none, ok, failed
      templatePath    |-> "",
      templateRead    |-> FALSE,
      templateBuffer  |-> <<>>,
      reads           |-> <<>>,       \* the paths passed to readFile, in order
      writes          |-> <<>>,       \* the buffers passed to workspace.fs.writeFile, in order
      written         |-> 0,          \* how many of these writes completed
      failure         |-> <<>>,       \* the text of the failed operation, if one failed
      msgs            |-> <<>> ]      \* the texts passed to window.showErrorMessage, in order

\* line 55
ExistsMessage(fileName) == "A " \o fileName \o " file already exists in this workspace."

\* line 43
NoWorkspaceMessage == "Workspace doesn't contain any folders."

\* ShowError that drops the message
ShowError_Silent(rec, text) == rec

\* window.showErrorMessage(text)
ShowError(rec, text) == [rec EXCEPT !.msgs = Append(@, text)]

\* lines 89-112, up to the first await: read the settings, then either start
\* the read of line 101 or choose the template and start the read of line 112
BeginTemplate(rec, cfg, wc) ==
    LET r1 == [rec EXCEPT !.wcRead = TRUE,
                          !.customTemplatePath = wc.customTemplatePath,
                          !.templateSetting = wc.template,
                          !.template = TemplateOrDefault(wc.template)]
    IN  IF wc.customTemplatePath # ""
        THEN [r1 EXCEPT !.pc = "verify",
                        !.templatePath = DefaultTemplatePathOf(cfg),
                        !.reads = Append(@, wc.customTemplatePath)]
        ELSE LET path == SelectTemplatePath(r1.customTemplatePath, FALSE, r1.template,
                                            DefaultTemplatePathOf(cfg))
             IN  [r1 EXCEPT !.pc = "read",
                            !.templatePath = path,
                            !.reads = Append(@, path)]

\* HasAutoContent true of every command
HasAutoContent_Every(cfg) == TRUE

\* line 75: if (config.generateAutoContent)
HasAutoContent(cfg) == cfg.hasAutoContent

\* lines 73-77, up to the first await of writeFile
BeginWriteFile(rec, cfg, wc, st, throws) ==
    IF HasAutoContent(cfg)
    THEN [rec EXCEPT !.pc = "auto",
                     !.st = st,
                     !.autoRan = TRUE,
                     !.content = IF throws THEN <<>> ELSE generateAutoContent(st),
                     !.failure = IF throws THEN <<AutoErrorMessage>> ELSE @]
    ELSE BeginTemplate(rec, cfg, wc)

\* workspace.fs.stat resolves for a file and for a directory, else it rejects
StatResolves(entry) == entry.type \in {"File", "Directory"}

\* IsRegularFile with the test of line 54 never true
IsRegularFile_Never(entry) == FALSE

\* line 54: stats.type === vscode.FileType.File
IsRegularFile(entry) == entry.type = "File"

\* line 60: err.name === 'EntryNotFound (FileSystemError)'
IsEntryNotFound(entry) == StatErrorName(entry) = "EntryNotFound (FileSystemError)"

\* lines 53-67: what the code after the await of line 53 does with the outcome
\* of stat; when stat resolves with another type than File, the try block is
\* left and the function ends
AfterStat(rec, cfg, entry, wc, st, throws) ==
    LET r1 == [rec EXCEPT !.statType = entry.type]
    IN  IF StatResolves(entry)
        THEN IF IsRegularFile(entry)
             THEN [ShowError(r1, ExistsMessage(rec.fileName)) EXCEPT !.pc = "done"]
             ELSE [r1 EXCEPT !.pc = "done"]
        ELSE IF IsEntryNotFound(entry)
             THEN BeginWriteFile(r1, cfg, wc, st, throws)
             ELSE [ShowError([r1 EXCEPT !.failure = <<StatErrorMessage(rec.configUri)>>],
                             StatErrorMessage(rec.configUri)) EXCEPT !.pc = "done"]

\* TemplateWriteBytes passing the buffer of the auto generator
TemplateWriteBytes_Content(rec) == rec.content

\* line 120: the buffer passed to workspace.fs.writeFile
TemplateWriteBytes(rec) == rec.templateBuffer

\* line 79: the buffer passed to workspace.fs.writeFile
AutoWriteBytes(rec) == rec.content

\* workspace.fs.writeFile(uri, bytes) creates or replaces the file
WriteFs(files, uri, bytes) == [files EXCEPT ![uri] = FileEntry(bytes)]

\* the values workspace.getConfiguration(`generate${config.templateName}`) can hold
WcSnapshots == [customTemplatePath : CustomTemplatePathValues, template : TemplateValues]

\* the settings writeFile reads in the segment that starts it: those of the
\* auto generator when the command has one, else those of lines 89-91
WcInputs(cfg) == IF HasAutoContent(cfg) THEN {CHOOSE wc \in WcSnapshots : TRUE} ELSE WcSnapshots
StInputs(cfg) == IF HasAutoContent(cfg) THEN EditorSnapshots ELSE {NoSnapshot}
ThrowInputs(cfg) == IF HasAutoContent(cfg) THEN BOOLEAN ELSE {FALSE}

----------------------------------------------------------------------------
(* The segments of generateConfig *)

\* Invoke keeping the locals of generateConfig in one variable shared by all
\* invocations
Invoke_SharedLocals(s) ==
    /\ h[s].pc \in {"idle", "done"}
    /\ invocations < MaxInvocations
    /\ \E uri \in Folders :
         LET fileName == FileNameOf(config, uri)
             configUri == ConfigUriOf(uri, fileName)
         IN  h' = [t \in Slots |->
                     [IdleHandler EXCEPT !.pc = IF t = s THEN "stat" ELSE h[t].pc,
                                         !.uri = uri,
                                         !.fileName = fileName,
                                         !.configUri = configUri,
                                         !.existedAtInvoke = (fs[configUri].type = "File")]]
    /\ invocations' = invocations + 1
    /\ UNCHANGED <<fs, workspaceFolders, config, writeCount, overwrites>>
    /\ UNCHANGED <<treeVars, npmVars, nameVars, ignoreVars, actVars, linkVars>>

\* lines 36-53: the callback of line 136 calls generateConfig(uri, config) and
\* returns; generateConfig runs up to its first await, the stat of line 53
Invoke(s) ==
    /\ h[s].pc \in {"idle", "done"}
    /\ invocations < MaxInvocations
    /\ \E uri \in Folders \cup {NoUri} :
         LET workspaceUri == IF workspaceFolders = <<>> THEN NoUri ELSE workspaceFolders[1]
             currentUri == IF uri # NoUri THEN uri ELSE workspaceUri
         IN  IF currentUri = NoUri
             THEN h' = [h EXCEPT ![s] =
                          [ShowError(IdleHandler, NoWorkspaceMessage) EXCEPT !.pc = "done"]]
             ELSE LET fileName == FileNameOf(config, currentUri)
                      configUri == ConfigUriOf(currentUri, fileName)
                  IN  h' = [h EXCEPT ![s] =
                              [IdleHandler EXCEPT !.pc = "stat",
                                                  !.uri = currentUri,
                                                  !.fileName = fileName,
                                                  !.configUri = configUri,
                                                  !.existedAtInvoke = (fs[configUri].type = "File")]]
    /\ invocations' = invocations + 1
    /\ UNCHANGED <<fs, workspaceFolders, config, writeCount, overwrites>>
    /\ UNCHANGED <<treeVars, npmVars, nameVars, ignoreVars, actVars, linkVars>>

\* lines 53-67 and, when the target is not found, writeFile up to its first await
StatDone(s) ==
    /\ h[s].pc = "stat"
    /\ \E wc \in WcInputs(config), st \in StInputs(config), throws \in ThrowInputs(config) :
         h' = [h EXCEPT ![s] = AfterStat(h[s], config, fs[h[s].configUri], wc, st, throws)]
    /\ UNCHANGED <<fs, workspaceFolders, config, invocations, writeCount, overwrites>>
    /\ UNCHANGED <<treeVars, npmVars, nameVars, ignoreVars, actVars, linkVars>>

\* lines 77-86: the await of generateAutoContent resumes
AutoDone(s) ==
    /\ h[s].pc = "auto"
    /\ \E wc \in WcSnapshots :
         h' = [h EXCEPT ![s] =
                 IF h[s].failure # <<>>
                 THEN [ShowError(h[s], h[s].failure[1]) EXCEPT !.pc = "done"]
                 ELSE IF Len(h[s].content) > 0
                 THEN [h[s] EXCEPT !.pc = "writeAuto", !.writes = Append(@, AutoWriteBytes(h[s]))]
                 ELSE BeginTemplate(h[s], config, wc)]
    /\ UNCHANGED <<fs, workspaceFolders, config, invocations, writeCount, overwrites>>
    /\ UNCHANGED <<treeVars, npmVars, nameVars, ignoreVars, actVars, linkVars>>

\* lines 79-85: the write of the generated content completes or rejects
AutoWriteDone(s) ==
    /\ h[s].pc = "writeAuto"
    /\ \E ok \in BOOLEAN :
         IF ok
         THEN /\ fs' = WriteFs(fs, h[s].configUri, h[s].writes[Len(h[s].writes)])
              /\ writeCount' = [writeCount EXCEPT ![h[s].configUri] = @ + 1]
              /\ overwrites' = overwrites + (IF fs[h[s].configUri].type = "File" THEN 1 ELSE 0)
              /\ h' = [h EXCEPT ![s] = [h[s] EXCEPT !.pc = "done", !.written = @ + 1]]
         ELSE /\ h' = [h EXCEPT ![s] =
                         [ShowError([h[s] EXCEPT !.failure = <<WriteErrorMessage(h[s].configUri)>>],
                                    WriteErrorMessage(h[s].configUri)) EXCEPT !.pc = "done"]]
              /\ UNCHANGED <<fs, writeCount, overwrites>>
    /\ UNCHANGED <<workspaceFolders, config, invocations>>
    /\ UNCHANGED <<treeVars, npmVars, nameVars, ignoreVars, actVars, linkVars>>

\* lines 99-112: the read of the custom template completes or rejects, the
\* template is chosen and its read started
VerifyDone(s) ==
    /\ h[s].pc = "verify"
    /\ \E ok \in BOOLEAN :
         LET path == SelectTemplatePath(h[s].customTemplatePath, ok, h[s].template,
                                        DefaultTemplatePathOf(config))
         IN  h' = [h EXCEPT ![s] =
                     [h[s] EXCEPT !.pc = "read",
                                  !.customRead = IF ok THEN "ok" ELSE "failed",
                                  !.templatePath = path,
                                  !.reads = Append(@, path)]]
    /\ UNCHANGED <<fs, workspaceFolders, config, invocations, writeCount, overwrites>>
    /\ UNCHANGED <<treeVars, npmVars, nameVars, ignoreVars, actVars, linkVars>>

\* lines 112-120: the read of the template completes or rejects; the write of
\* line 120 is started
ReadDone(s) ==
    /\ h[s].pc = "read"
    /\ \E ok \in BOOLEAN :
         h' = [h EXCEPT ![s] =
                 IF ok
                 THEN LET r1 == [h[s] EXCEPT !.templateRead = TRUE,
                                              !.templateBuffer = FileBytes(h[s].templatePath)]
                      IN  [r1 EXCEPT !.pc = "write",
                                     !.writes = Append(@, TemplateWriteBytes(r1))]
                 ELSE [ShowError([h[s] EXCEPT !.failure = <<ReadErrorMessage(h[s].templatePath)>>],
                                 ReadErrorMessage(h[s].templatePath)) EXCEPT !.pc = "done"]]
    /\ UNCHANGED <<fs, workspaceFolders, config, invocations, writeCount, overwrites>>
    /\ UNCHANGED <<treeVars, npmVars, nameVars, ignoreVars, actVars, linkVars>>

\* lines 118-123: the write of the template bytes completes or rejects
TemplateWriteDone(s) ==
    /\ h[s].pc = "write"
    /\ \E ok \in BOOLEAN :
         IF ok
         THEN /\ fs' = WriteFs(fs, h[s].configUri, h[s].writes[Len(h[s].writes)])
              /\ writeCount' = [writeCount EXCEPT ![h[s].configUri] = @ + 1]
              /\ overwrites' = overwrites + (IF fs[h[s].configUri].type = "File" THEN 1 ELSE 0)
              /\ h' = [h EXCEPT ![s] = [h[s] EXCEPT !.pc = "done", !.written = @ + 1]]
         ELSE /\ h' = [h EXCEPT ![s] =
                         [ShowError([h[s] EXCEPT !.failure = <<WriteErrorMessage(h[s].configUri)>>],
                                    WriteErrorMessage(h[s].configUri)) EXCEPT !.pc = "done"]]
              /\ UNCHANGED <<fs, writeCount, overwrites>>
    /\ UNCHANGED <<workspaceFolders, config, invocations>>
    /\ UNCHANGED <<treeVars, npmVars, nameVars, ignoreVars, actVars, linkVars>>

\* the state after activate(): one generate command registered, nothing invoked
Init ==
    /\ config \in GenerateCommands
    /\ workspaceFolders \in {<<>>, <<UriProj>>}
    /\ \E eProj \in InitialEntries(UriProj), eRoot \in InitialEntries(UriRoot) :
         fs = [u \in ConfigUrisOf(config) |->
                 IF u = ConfigUriOf(UriProj, FileNameOf(config, UriProj)) THEN eProj ELSE eRoot]
    /\ h = [s \in Slots |-> IdleHandler]
    /\ invocations = 0
    /\ writeCount = [u \in ConfigUrisOf(config) |-> 0]
    /\ overwrites = 0
    /\ disk = DiskAtStart
    /\ TreeIdle
    /\ NpmIdle
    /\ RestIdle

Next ==
    \/ \E s \in Slots : Invoke(s)
    \/ \E s \in Slots : StatDone(s)
    \/ \E s \in Slots : AutoDone(s)
    \/ \E s \in Slots : AutoWriteDone(s)
    \/ \E s \in Slots : VerifyDone(s)
    \/ \E s \in Slots : ReadDone(s)
    \/ \E s \in Slots : TemplateWriteDone(s)

Spec == Init /\ [][Next]_vars

----------------------------------------------------------------------------
(* src/tree-views/vssm-tool-cmd.ts, lines 271-626: FixedDataProvider *)

\* total number of add, delete and edit commands the host dispatches
MaxTreeCommands == 2

\* total number of changes made to the disk from outside the extension
MaxDiskChanges == 1

\* new FixedDataNode(label, collapsibleState, children); a node constructed
\* without children has the empty sequence, which every reader of children
\* treats as it treats undefined
FixedDataNode(label, collapsibleState, children) ==
    [label |-> label, collapsibleState |-> collapsibleState, children |-> children]

\* lines 519-530: the sample tree
SampleData ==
    << FixedDataNode("Category 1", "Collapsed",
          << FixedDataNode("Item 1.1", "None", <<>>),
             FixedDataNode("Item 1.2", "None", <<>>) >>),
       FixedDataNode("Category 2", "Collapsed",
          << FixedDataNode("Item 2.1", "None", <<>>),
             FixedDataNode("Item 2.2", "None", <<>>),
             FixedDataNode("Item 2.3", "None", <<>>) >>),
       FixedDataNode("Simple Item", "None", <<>>) >>

\* lines 486-495
RECURSIVE getAllNodeLabels(_)
getAllNodeLabels(nodes) ==
    IF nodes = <<>> THEN <<>>
    ELSE <<Head(nodes).label>> \o getAllNodeLabels(Head(nodes).children)
           \o getAllNodeLabels(Tail(nodes))

\* the nodes of a tree, at every depth
RECURSIVE AllNodes(_)
AllNodes(nodes) ==
    IF nodes = <<>> THEN {}
    ELSE {Head(nodes)} \cup AllNodes(Head(nodes).children) \cup AllNodes(Tail(nodes))

LabelsOf(nodes) == { getAllNodeLabels(nodes)[i] : i \in 1..Len(getAllNodeLabels(nodes)) }

\* lines 466-479: the first node with the label in depth-first order, as a
\* one-element sequence, or the empty sequence
RECURSIVE findNodeByLabel(_, _)
findNodeByLabel(nodes, label) ==
    IF nodes = <<>> THEN <<>>
    ELSE IF Head(nodes).label = label THEN <<Head(nodes)>>
    ELSE LET found == findNodeByLabel(Head(nodes).children, label)
         IN  IF found # <<>> THEN found ELSE findNodeByLabel(Tail(nodes), label)

\* lines 411-426: replace the first node with the label in depth-first order
RECURSIVE replaceNode(_, _, _)
replaceNode(nodes, label, newNode) ==
    IF nodes = <<>> THEN [found |-> FALSE, nodes |-> <<>>]
    ELSE LET n == Head(nodes)
         IN  IF n.label = label
             THEN [found |-> TRUE, nodes |-> <<newNode>> \o Tail(nodes)]
             ELSE LET sub == replaceNode(n.children, label, newNode)
                  IN  IF sub.found
                      THEN [found |-> TRUE,
                            nodes |-> <<[n EXCEPT !.children = sub.nodes]>> \o Tail(nodes)]
                      ELSE LET rest == replaceNode(Tail(nodes), label, newNode)
                           IN  [found |-> rest.found, nodes |-> <<n>> \o rest.nodes]

\* lines 434-458: remove the first node with the label in depth-first order;
\* a parent left without children is replaced by a node that is not
\* collapsible (labels are unique in the model, so the replaceNode of line
\* 451 finds this parent)
RECURSIVE deleteNode(_, _)
deleteNode(nodes, label) ==
    IF nodes = <<>> THEN [found |-> FALSE, nodes |-> <<>>]
    ELSE LET n == Head(nodes)
         IN  IF n.label = label
             THEN [found |-> TRUE, nodes |-> Tail(nodes)]
             ELSE LET sub == deleteNode(n.children, label)
                  IN  IF sub.found
                      THEN [found |-> TRUE,
                            nodes |-> << IF sub.nodes = <<>>
                                         THEN FixedDataNode(n.label, "None", <<>>)
                                         ELSE [n EXCEPT !.children = sub.nodes] >>
                                      \o Tail(nodes)]
                      ELSE LET rest == deleteNode(Tail(nodes), label)
                           IN  [found |-> rest.found, nodes |-> <<n>> \o rest.nodes]

\* String(n).padStart(2, '0') for n below one hundred
Pad2(n) == DecimalString(n \div 10) \o DecimalString(n % 10)

\* lines 351-359; date.month is getMonth(), counted from zero
formatDateTime(date) ==
    Pad2(date.year \div 100) \o Pad2(date.year % 100) \o "-" \o Pad2(date.month + 1)
      \o "-" \o Pad2(date.day) \o " " \o Pad2(date.hours) \o ":" \o Pad2(date.minutes)
      \o ":" \o Pad2(date.seconds)

\* the values new Date() takes in the model
Dates ==
    { [year |-> 2026, month |-> 10, day |-> 4, hours |-> 9, minutes |-> 5, seconds |-> s]
        : s \in {7, 8} }

\* lines 372-374
NewItemLabel(parentLabel, date) ==
    IF parentLabel # "" THEN parentLabel \o "-item-" \o formatDateTime(date)
    ELSE "Item-" \o formatDateTime(date)

\* lines 366-398: the root nodes after addNewItem; parentLabel is "" when the
\* command has no element
addNewItem(nodes, parentLabel, date) ==
    LET newItem == FixedDataNode(NewItemLabel(parentLabel, date), "None", <<>>)
    IN  IF parentLabel # ""
        THEN LET parent == findNodeByLabel(nodes, parentLabel)
             IN  IF parent # <<>>
                 THEN replaceNode(nodes, parent[1].label,
                                  FixedDataNode(parent[1].label, "Collapsed",
                                                Append(parent[1].children, newItem))).nodes
                 ELSE nodes
        ELSE Append(nodes, newItem)

\* FixedDataProvider_RootNodes that builds the sample tree on every call
FixedRootNodes_Fresh(nodes) == SampleData

\* lines 516-532: the root nodes getChildren stores and returns
FixedRootNodes(nodes) == IF Len(nodes) = 0 THEN SampleData ELSE nodes

\* value.trim().length === 0, for the labels of the model
IsBlank(str) == str \in {"", " "}

\* what the user can answer to the input box of line 567; NoAnswer is the
\* undefined of a dismissed box
NoAnswer == "<dismissed>"
Answers == {NoAnswer, "Renamed"}

\* the element a waiting editItem holds after the tree changed from before to
\* after: the node object is the one in the tree as long as no command has
\* replaced or removed it, and keeps its last children from then on
TrackElement(e, replacedLabels, emptiedLabels, after) ==
    IF ~e.live THEN e
    ELSE IF e.element.label \in emptiedLabels
    THEN [e EXCEPT !.live = FALSE, !.element.children = <<>>]
    ELSE IF e.element.label \in replacedLabels
    THEN [e EXCEPT !.live = FALSE]
    ELSE LET now == findNodeByLabel(after, e.element.label)
         IN  IF now = <<>> THEN [e EXCEPT !.live = FALSE] ELSE [e EXCEPT !.element = now[1]]

\* the nodes of the view the user runs a command on: the first category, its
\* two items, and whatever node carries the new label of an edit
SelectedLabels == {"Category 1", "Item 1.1", "Item 1.2", "Renamed"}
Selectable(nodes) == { n \in AllNodes(nodes) : n.label \in SelectedLabels }

\* the labels of the parents that a deletion left without children
EmptiedBy(before, label) ==
    { n.label : n \in { m \in AllNodes(before) :
                          Len(m.children) = 1 /\ m.children[1].label = label } }

----------------------------------------------------------------------------
(* The callbacks of the fixed-data view *)

\* lines 514-537, root call: the host asks for the root nodes
GetChildrenFixed ==
    /\ data' = FixedRootNodes(data)
    /\ returned' = [view |-> "vssm-tool-fixed-data", nodes |-> data', info |-> ""]
    /\ UNCHANGED <<disk, settingsNodes, edit, treeCommands, diskChanges>>
    /\ UNCHANGED <<genVars, npmVars, nameVars, ignoreVars, actVars, linkVars>>

\* lines 366-402 and 616: vssm-tool-fixed-data.addEntry on a node of the view,
\* or on none
AddEntry ==
    /\ treeCommands < MaxTreeCommands
    /\ \E parentLabel \in { n.label : n \in Selectable(data) } \cup {""}, date \in Dates :
         /\ NewItemLabel(parentLabel, date) \notin LabelsOf(data)
         /\ data' = addNewItem(data, parentLabel, date)
         /\ edit' = TrackElement(edit, {parentLabel}, {}, data')
    /\ treeCommands' = treeCommands + 1
    /\ UNCHANGED <<disk, settingsNodes, returned, diskChanges>>
    /\ UNCHANGED <<genVars, npmVars, nameVars, ignoreVars, actVars, linkVars>>

\* lines 544-554 and 619: vssm-tool-fixed-data.deleteEntry on a node of the view
DeleteEntry ==
    /\ treeCommands < MaxTreeCommands
    /\ \E label \in { n.label : n \in Selectable(data) } :
         /\ data' = deleteNode(data, label).nodes
         /\ edit' = TrackElement(edit, {label}, EmptiedBy(data, label), data')
    /\ treeCommands' = treeCommands + 1
    /\ UNCHANGED <<disk, settingsNodes, returned, diskChanges>>
    /\ UNCHANGED <<genVars, npmVars, nameVars, ignoreVars, actVars, linkVars>>

\* lines 561-576 and 622: vssm-tool-fixed-data.editEntry on a node of the
\* view, up to the await of the input box
EditEntry ==
    /\ treeCommands < MaxTreeCommands
    /\ edit.pc = "idle"
    /\ \E element \in Selectable(data) :
         edit' = [pc |-> "input", element |-> element, live |-> TRUE]
    /\ treeCommands' = treeCommands + 1
    /\ UNCHANGED <<disk, data, settingsNodes, returned, diskChanges>>
    /\ UNCHANGED <<genVars, npmVars, nameVars, ignoreVars, actVars, linkVars>>

\* lines 578-594: the input box resolves
EditAnswered ==
    /\ edit.pc = "input"
    /\ \E newLabel \in Answers :
         /\ newLabel \notin LabelsOf(data)
         /\ IF newLabel = NoAnswer \/ IsBlank(newLabel)
            THEN data' = data
            ELSE data' = replaceNode(data, edit.element.label,
                                     FixedDataNode(newLabel, edit.element.collapsibleState,
                                                   edit.element.children)).nodes
    /\ edit' = NoEdit
    /\ UNCHANGED <<disk, settingsNodes, returned, treeCommands, diskChanges>>
    /\ UNCHANGED <<genVars, npmVars, nameVars, ignoreVars, actVars, linkVars>>

----------------------------------------------------------------------------
(* src/tree-views/vscode-settings-view.ts: VSCodeSettingsProvider, in a local
   window opened on folders, without a workspace file *)

\* lines 27-33: new VSCodeSettingsNode(label, filePath, isDirectory, description)
VSCodeSettingsNode(label, filePath, isDirectory, description) ==
    [label |-> label, filePath |-> filePath, isDirectory |-> isDirectory,
     description |-> description]

\* lines 252-275: the folders that have a .vscode/settings.json
getFolderSettings(d, folders) ==
    IF folders # <<>> /\ FolderSettingsPath \in d
    THEN << VSCodeSettingsNode("proj", "/proj", TRUE, "Workspace folder: proj") >>
    ELSE <<>>

\* lines 96-180: the list scanSettingsFiles stores
scanSettingsFiles(d, folders) ==
    << VSCodeSettingsNode("Default Settings", "", FALSE, "VS Code default settings (read-only)") >>
    \o (IF UserSettingsPath \in d
        THEN << VSCodeSettingsNode("User Settings", UserSettingsPath, FALSE, "Global user settings") >>
        ELSE <<>>)
    \o (IF RemoteSettingsPath \in d
        THEN << VSCodeSettingsNode("Remote Settings", RemoteSettingsPath, FALSE,
                                   "Remote development settings") >>
        ELSE <<>>)
    \o (IF Len(getFolderSettings(d, folders)) > 0
        THEN << VSCodeSettingsNode("Folder Settings", "", TRUE, "Folder-level settings") >>
        ELSE <<>>)

\* lines 354-361, root call
GetChildrenSettings ==
    /\ settingsNodes' = IF Len(settingsNodes) = 0
                        THEN scanSettingsFiles(disk, workspaceFolders)
                        ELSE settingsNodes
    /\ returned' = [view |-> "vssm-tool-vscode-settings", nodes |-> settingsNodes', info |-> ""]
    /\ UNCHANGED <<disk, data, edit, treeCommands, diskChanges>>
    /\ UNCHANGED <<genVars, npmVars, nameVars, ignoreVars, actVars, linkVars>>

\* lines 86-90 and 430: vssm-tool-vscode-settings.refreshEntry
RefreshSettings ==
    /\ settingsNodes' = scanSettingsFiles(disk, workspaceFolders)
    /\ UNCHANGED <<disk, data, returned, edit, treeCommands, diskChanges>>
    /\ UNCHANGED <<genVars, npmVars, nameVars, ignoreVars, actVars, linkVars>>

----------------------------------------------------------------------------
(* src/tree-views/vssm-tool-node-dependencies.ts: DepNodeProvider, for a
   package.json whose only dependency is lodash *)

\* lines 87-93: new Dependency(label, version, collapsibleState)
Dependency(label, version, collapsibleState) ==
    [label |-> label, version |-> version, collapsibleState |-> collapsibleState]

\* lines 45-72
getDepsInPackageJson(d) ==
    IF PackageJsonPath \in d
    THEN << Dependency("lodash", "^4.17.21",
                       IF LodashModulePath \in d THEN "Collapsed" ELSE "None") >>
    ELSE <<>>

\* lines 22-39, root call: the nodes returned and the message shown, "" for
\* none
DepsRoot(d, folders) ==
    IF folders = <<>>
    THEN [nodes |-> <<>>, info |-> "No dependency in empty workspace"]
    ELSE IF PackageJsonPath \in d
    THEN [nodes |-> getDepsInPackageJson(d), info |-> ""]
    ELSE [nodes |-> <<>>, info |-> "Workspace has no package.json"]

GetChildrenDeps ==
    /\ returned' = [view |-> "vssm-tool-node-dependencies",
                    nodes |-> DepsRoot(disk, workspaceFolders).nodes,
                    info |-> DepsRoot(disk, workspaceFolders).info]
    /\ UNCHANGED <<disk, data, settingsNodes, edit, treeCommands, diskChanges>>
    /\ UNCHANGED <<genVars, npmVars, nameVars, ignoreVars, actVars, linkVars>>

----------------------------------------------------------------------------
(* The disk under the tree views, and their specification *)

\* the paths that come and go; a local window has no remote settings
WatchedPaths == {UserSettingsPath, FolderSettingsPath, PackageJsonPath, LodashModulePath}

\* a file the views look for is created or removed from outside
DiskChange ==
    /\ diskChanges < MaxDiskChanges
    /\ \E p \in WatchedPaths :
         disk' = IF p \in disk THEN disk \ {p} ELSE disk \cup {p}
    /\ diskChanges' = diskChanges + 1
    /\ UNCHANGED <<data, settingsNodes, returned, edit, treeCommands>>
    /\ UNCHANGED <<genVars, npmVars, nameVars, ignoreVars, actVars, linkVars>>

InitTree ==
    /\ GenIdle
    /\ workspaceFolders \in {<<>>, <<UriProj>>}
    /\ disk = DiskAtStart
    /\ TreeIdle
    /\ NpmIdle
    /\ RestIdle

NextTree ==
    \/ GetChildrenFixed
    \/ AddEntry
    \/ DeleteEntry
    \/ EditEntry
    \/ EditAnswered
    \/ GetChildrenSettings
    \/ RefreshSettings
    \/ GetChildrenDeps
    \/ DiskChange

SpecTree == InitTree /\ [][NextTree]_vars

----------------------------------------------------------------------------
(* src/cmd/npm-run-task.ts: the 'Run NPM Task' command *)

\* total number of invocations of vssm-tool.runNpmTask
MaxNpmRuns == 2

\* lines 5-8: enum TaskSource
TaskSourceTasksJson == "tasks.json"
TaskSourcePackageJson == "package.json"

\* package.json, contributes.configuration: the default a declared key has
DeclaredDefault(key) ==
    IF key = DeclaredTaskSourceKey THEN <<TaskSourcePackageJson>> ELSE <<>>

\* workspace.getConfiguration(section).get(key, defaultValue): the user's
\* value of section.key, else the default package.json declares for it, else
\* defaultValue
ConfigurationGet(section, key, defaultValue) ==
    LET full == section \o "." \o key
    IN  IF full \in DOMAIN settings /\ settings[full] # Undefined THEN settings[full]
        ELSE IF DeclaredDefault(full) # <<>> THEN DeclaredDefault(full)[1]
        ELSE defaultValue

\* lines 56-61
getTaskSource == ConfigurationGet("vssm-tool", "npmTaskSource", TaskSourcePackageJson)

\* the scripts objects package.json may hold when it is read
PackageJsonScripts == { <<>>, <<"build", "test">> }

\* the tasks arrays .vscode/tasks.json may hold when it is read
NpmTaskDefinition(type, label, script, dependsOn) ==
    [type |-> type, label |-> label, script |-> script, dependsOn |-> dependsOn]
TasksJsonTasks ==
    { <<>>,
      << NpmTaskDefinition("npm", "npm: watch", "watch", <<>>),
         NpmTaskDefinition("shell", "lint", "", <<>>),
         NpmTaskDefinition("shell", "all", "", <<"npm: watch", "missing">>) >> }

\* the names of the tasks tasks.fetchTasks() resolves with
FetchedTaskNames == <<"npm: watch", "lint", "all">>

RECURSIVE MapScripts(_)
\* lines 83-87: one quick pick item per script
MapScripts(scripts) ==
    IF scripts = <<>> THEN <<>>
    ELSE << [label |-> Head(scripts), description |-> "npm run " \o Head(scripts),
             task |-> <<>>] >> \o MapScripts(Tail(scripts))

RECURSIVE MapTasks(_)
\* lines 112-121: one quick pick item per npm task or task with dependents
MapTasks(tasks) ==
    IF tasks = <<>> THEN <<>>
    ELSE LET task == Head(tasks)
         IN  (IF task.type = "npm" \/ Len(task.dependsOn) > 0
              THEN << [label |-> task.label,
                       description |-> IF task.script # "" THEN "npm run " \o task.script
                                       ELSE "",
                       task |-> <<task>>] >>
              ELSE <<>>) \o MapTasks(Tail(tasks))

\* lines 68-88 and 95-122: what the getter of the source resolves with or
\* throws, for the content the file has when read
GetItems(source, d, scripts, tasks) ==
    IF source = TaskSourcePackageJson
    THEN IF PackageJsonPath \in d
         THEN [items |-> MapScripts(scripts), thrown |-> ""]
         ELSE [items |-> <<>>, thrown |-> "package.json not found"]
    ELSE IF TasksJsonPath \in d
         THEN [items |-> MapTasks(tasks), thrown |-> ""]
         ELSE [items |-> <<>>, thrown |-> "tasks.json not found"]

\* lines 145 and 148
TitleOf(source) ==
    IF source = TaskSourcePackageJson THEN "Select npm script to run"
    ELSE "Select npm task to run"

RECURSIVE RunDependents(_, _, _)
\* lines 200-214: the loop over dependsOn from index i up to its next await,
\* or to its end (next = 0)
RunDependents(names, i, msgs) ==
    IF i > Len(names) THEN [next |-> 0, msgs |-> msgs]
    ELSE IF \E k \in 1..Len(FetchedTaskNames) : FetchedTaskNames[k] = names[i]
    THEN [next |-> i, msgs |-> msgs]
    ELSE RunDependents(names, i + 1,
             Append(msgs, [kind |-> "error",
                           text |-> "Dependent task \"" \o names[i]
                                      \o "\" not found. Available tasks: "
                                      \o JoinStr(FetchedTaskNames, ", ")]))

\* lines 130-142: the command is invoked; it runs up to the await of
\* getTaskSource()
NpmInvoke ==
    /\ npm.pc \in {"idle", "done"}
    /\ npm.runs < MaxNpmRuns
    /\ IF workspaceFolders = <<>>
       THEN npm' = [IdleNpm EXCEPT !.pc = "done", !.runs = npm.runs + 1,
                       !.executed = npm.executed,
                       !.msgs = << [kind |-> "error", text |-> "No workspace folder found"] >>]
       ELSE npm' = [IdleNpm EXCEPT !.pc = "source", !.runs = npm.runs + 1,
                       !.executed = npm.executed,
                       !.taskSource = getTaskSource]
    /\ UNCHANGED <<settings, genVars, treeVars, nameVars, ignoreVars, actVars, linkVars>>

\* lines 143-150: the getter of the source runs, up to the await of its
\* promise
NpmGetItems ==
    /\ npm.pc = "source"
    /\ \E scripts \in PackageJsonScripts, tasks \in TasksJsonTasks :
         LET got == GetItems(npm.taskSource, disk, scripts, tasks)
         IN  npm' = [npm EXCEPT !.pc = "items", !.items = got.items,
                                !.thrown = got.thrown,
                                !.title = IF got.thrown = "" THEN TitleOf(npm.taskSource)
                                          ELSE ""]
    /\ UNCHANGED <<settings, genVars, treeVars, nameVars, ignoreVars, actVars, linkVars>>

\* lines 152-163 and 222-224: the rejection is reported, or the empty list,
\* or the quick pick is shown
NpmShow ==
    /\ npm.pc = "items"
    /\ npm' = IF npm.thrown # ""
              THEN [npm EXCEPT !.pc = "done",
                      !.msgs = Append(@, [kind |-> "error",
                                          text |-> "Error: Error: " \o npm.thrown])]
              ELSE IF Len(npm.items) = 0
              THEN [npm EXCEPT !.pc = "done",
                      !.msgs = Append(@, [kind |-> "info",
                                          text |-> "No items found in " \o npm.taskSource])]
              ELSE [npm EXCEPT !.pc = "pick"]
    /\ UNCHANGED <<settings, genVars, treeVars, nameVars, ignoreVars, actVars, linkVars>>

\* lines 166-198 and 220: the user accepts an item of the quick pick
NpmAccept ==
    /\ npm.pc = "pick"
    /\ \E i \in 1..Len(npm.items) :
         LET selectedItem == npm.items[i]
         IN  npm' = IF npm.taskSource = TaskSourcePackageJson
                    THEN [npm EXCEPT !.pc = "done",
                            !.executed = Append(@, "npm run " \o selectedItem.label)]
                    ELSE IF selectedItem.task[1].type = "npm"
                    THEN [npm EXCEPT !.pc = "done",
                            !.executed = Append(@, "npm run " \o selectedItem.task[1].script)]
                    ELSE [npm EXCEPT !.pc = "fetch", !.selected = selectedItem.task]
    /\ UNCHANGED <<settings, genVars, treeVars, nameVars, ignoreVars, actVars, linkVars>>

\* lines 173 and 175: the quick pick is hidden without a choice
NpmHide ==
    /\ npm.pc = "pick"
    /\ npm' = [npm EXCEPT !.pc = "done"]
    /\ UNCHANGED <<settings, genVars, treeVars, nameVars, ignoreVars, actVars, linkVars>>

\* lines 199-216: fetchTasks or the executeTask of a dependent task resolves,
\* and the loop runs to its next await or to the return
NpmDependents ==
    /\ npm.pc \in {"fetch", "dep"}
    /\ LET names == npm.selected[1].dependsOn
           run == RunDependents(names, npm.depIndex + 1, npm.msgs)
       IN  npm' = IF run.next = 0
                  THEN [npm EXCEPT !.pc = "done", !.msgs = run.msgs]
                  ELSE [npm EXCEPT !.pc = "dep", !.msgs = run.msgs,
                          !.depIndex = run.next,
                          !.executed = Append(@, names[run.next])]
    /\ UNCHANGED <<settings, genVars, treeVars, nameVars, ignoreVars, actVars, linkVars>>

\* the settings a user can have written before the command runs
InitNpm ==
    /\ GenIdle
    /\ workspaceFolders \in {<<>>, <<UriProj>>}
    /\ TreeIdle
    /\ disk \in SUBSET {PackageJsonPath, TasksJsonPath}
    /\ settings \in [SettingKeys -> {Undefined, TaskSourceTasksJson, TaskSourcePackageJson}]
    /\ npm = IdleNpm
    /\ RestIdle

NextNpm ==
    \/ NpmInvoke
    \/ NpmGetItems
    \/ NpmShow
    \/ NpmAccept
    \/ NpmHide
    \/ NpmDependents

SpecNpm == InitNpm /\ [][NextNpm]_vars

----------------------------------------------------------------------------
(* src/cmd/generateConfigs.ts, lines 47-57 and 154-165: from the folder URI
   to the path of the target, for GenerateWorkspaceConfigCommand.  Texts are
   spelled out here as sequences of characters; a run of characters that
   none of the conversions looks into ("proj", ".code-workspace", "file://")
   stands as one element. *)

\* longest folder path of the model, in characters
MaxPathLen == 4

\* the characters of a folder path
PathChars == {"/", "proj", "c", "#", "?"}

\* the absolute folder paths of at most n characters
FolderPaths(n) ==
    { p \in UNION { [1..k -> PathChars] : k \in 1..n } : p[1] = "/" }

\* does the text contain one of the characters
HasAny(text, chars) == \E i \in 1..Len(text) : text[i] \in chars

\* index of the first of the characters in the text
FirstOf(text, chars) ==
    CHOOSE i \in 1..Len(text) : text[i] \in chars /\ \A j \in 1..(i - 1) : text[j] \notin chars

RECURSIVE SplitText(_, _)
\* String.prototype.split(sep)
SplitText(text, sep) ==
    IF ~HasAny(text, {sep}) THEN <<text>>
    ELSE LET i == FirstOf(text, {sep})
         IN  <<SubSeq(text, 1, i - 1)>> \o SplitText(SubSeq(text, i + 1, Len(text)), sep)

\* lines 156-160: fileNameGenerator on a spelled-out uri.path
fileNameGeneratorText(path) ==
    LET segs == SelectSeq(SplitText(path, "/"), LAMBDA seg : seg # <<>>)
        folderName == IF segs = <<>> THEN <<"workspace">> ELSE segs[Len(segs)]
    IN  folderName \o <<".code-workspace">>

\* encodeURIComponent of one character of a path, '/' kept
EncodeChar(c) == IF c = "#" THEN "%23" ELSE IF c = "?" THEN "%3F" ELSE c

\* decodeURIComponent of one character
DecodeChar(c) == IF c = "%23" THEN "#" ELSE IF c = "%3F" THEN "?" ELSE c

\* Uri.toString() of a file URI: the scheme, and the path percent-encoded
UriToText(path) == <<"file://">> \o [i \in 1..Len(path) |-> EncodeChar(path[i])]

\* Uri.parse(text) of a file URI: the path runs up to the first '?' or '#',
\* the query from a '?' up to the '#', the fragment from the '#'; each is
\* percent-decoded
UriParse(text) ==
    LET rest  == Tail(text)
        pEnd  == IF HasAny(rest, {"?", "#"}) THEN FirstOf(rest, {"?", "#"}) - 1 ELSE Len(rest)
        after == SubSeq(rest, pEnd + 1, Len(rest))
        fAt   == IF HasAny(after, {"#"}) THEN FirstOf(after, {"#"}) ELSE Len(after) + 1
        query == IF after # <<>> /\ after[1] = "?" THEN SubSeq(after, 2, fAt - 1) ELSE <<>>
        frag  == SubSeq(after, fAt + 1, Len(after))
        dec(t) == [i \in 1..Len(t) |-> DecodeChar(t[i])]
    IN  [path |-> dec(SubSeq(rest, 1, pEnd)), query |-> dec(query), fragment |-> dec(frag)]

\* line 49: Uri.parse(`${currentUri.toString()}/${fileName}`)
ConfigUriText(path, fileName) == UriParse(UriToText(path) \o <<"/">> \o fileName)

\* lines 36-53: the command is invoked on a folder and runs up to the await
\* of the stat
NameInvoke ==
    /\ naming.pc \in {"idle", "done"}
    /\ \E path \in FolderPaths(MaxPathLen) :
         LET fileName == fileNameGeneratorText(path)
         IN  naming' = [IdleNaming EXCEPT !.pc = "stat", !.path = path,
                                          !.fileName = fileName,
                                          !.configUri = ConfigUriText(path, fileName)]
    /\ UNCHANGED <<genVars, treeVars, npmVars, ignoreVars, actVars, linkVars>>

\* lines 53-64: the stat of configUri resolves with a file, or rejects with
\* EntryNotFound
NameStat ==
    /\ naming.pc = "stat"
    /\ \E isFile \in BOOLEAN :
         naming' = IF isFile
                   THEN [naming EXCEPT !.pc = "done", !.statPath = naming.configUri.path,
                            !.msgs = << <<"A ">> \o naming.fileName
                                          \o <<" file already exists in this workspace.">> >>]
                   ELSE [naming EXCEPT !.pc = "write", !.statPath = naming.configUri.path]
    /\ UNCHANGED <<genVars, treeVars, npmVars, ignoreVars, actVars, linkVars>>

\* line 120: the write to configUri
NameWrite ==
    /\ naming.pc = "write"
    /\ naming' = [naming EXCEPT !.pc = "done", !.writePath = naming.configUri.path]
    /\ UNCHANGED <<genVars, treeVars, npmVars, ignoreVars, actVars, linkVars>>

InitName ==
    /\ GenIdle
    /\ workspaceFolders = <<UriProj>>
    /\ disk = DiskAtStart
    /\ TreeIdle
    /\ NpmIdle
    /\ RestIdle

NextName ==
    \/ NameInvoke
    \/ NameStat
    \/ NameWrite

SpecName == InitName /\ [][NextName]_vars

----------------------------------------------------------------------------
(* src/cmd/addToIgnore.ts: the 'Add to .gitignore' command.  File contents
   are sequences of bytes, strings sequences of characters; a file name
   stands as one element. *)

\* total number of invocations of vssm-tool.addToGitIgnore
MaxIgnoreRuns == 2

\* lines 85-89: AddToGitIgnoreCommand.fileName
IgnoreFileName == ".gitignore"

\* the files and folders the command is invoked on, as URI paths
IgnoreTargets == { <<"/", "proj", "/", "a.txt">>, <<"/", "proj", "/", "b.txt">> }

\* what the ignore file can hold before the first command: nothing, entries
\* with LF and with CRLF line endings, a last line without line ending, and
\* a line in an 8-bit encoding (0xE9 is no valid UTF-8)
InitialIgnoreFiles ==
    { [exists |-> FALSE, bytes |-> <<>>],
      [exists |-> TRUE,  bytes |-> <<>>],
      [exists |-> TRUE,  bytes |-> <<"a.txt", "\n">>],
      [exists |-> TRUE,  bytes |-> <<"a.txt">>],
      [exists |-> TRUE,  bytes |-> <<"a.txt", "\r", "\n">>],
      [exists |-> TRUE,  bytes |-> <<"0xE9", "\n">>] }

\* Uri.fsPath of a folder of the workspace, spelled out
RECURSIVE FsPathText(_)
FsPathText(uri) ==
    IF uri = <<>> THEN <<>>
    ELSE (IF Head(uri) = "" THEN <<>> ELSE <<"/", Head(uri)>>) \o FsPathText(Tail(uri))

\* line 29: workspace.asRelativePath(uri, false): the path below the
\* workspace folder, or the whole path of a resource outside it
asRelativePath(path, folder) ==
    LET root == FsPathText(folder) \o <<"/">>
    IN  IF Len(path) > Len(root) /\ SubSeq(path, 1, Len(root)) = root
        THEN SubSeq(path, Len(root) + 1, Len(path))
        ELSE path

\* line 36: data.toString(), the UTF-8 decoding of the bytes: a byte that is
\* no valid UTF-8 becomes U+FFFD
BufferToString(bytes) ==
    [i \in 1..Len(bytes) |-> IF bytes[i] = "0xE9" THEN "U+FFFD" ELSE bytes[i]]

\* line 53: Buffer.from(newContent), the UTF-8 encoding of the string
BufferFromString(str) ==
    [i \in 1..Len(str) |-> IF str[i] = "U+FFFD" THEN "0xEFBFBD" ELSE str[i]]

\* line.trim() is not empty
TrimIsNonEmpty(line) == \E i \in 1..Len(line) : line[i] \notin {" ", "\t", "\r", "\n"}

\* line 43: content.split('\n').filter(line => line.trim())
IgnoreLines(content) == SelectSeq(SplitText(content, "\n"), TrimIsNonEmpty)

\* line 44: lines.includes(relativePath)
LinesInclude(lines, relativePath) == \E i \in 1..Len(lines) : lines[i] = relativePath

\* line 50: content.endsWith('\n') || content === '' ? '' : '\n'
Separator(content) ==
    IF (content # <<>> /\ content[Len(content)] = "\n") \/ content = <<>> THEN <<>>
    ELSE <<"\n">>

\* line 50
NewContent(content, relativePath) ==
    content \o Separator(content) \o relativePath \o <<"\n">>

IgnoreRuns == ig["h1"].runs + ig["h2"].runs

\* lines 16-35 and 73-75: the callback calls addToIgnore(uri, fileName)
\* without awaiting it; addToIgnore runs up to the await of the read
IgnoreInvoke(s) ==
    /\ ig[s].pc \in {"idle", "done"}
    /\ IgnoreRuns < MaxIgnoreRuns
    /\ \E path \in IgnoreTargets :
         ig' = [ig EXCEPT ![s] =
                  IF workspaceFolders = <<>>
                  THEN [IdleIgnore EXCEPT !.pc = "done", !.runs = ig[s].runs + 1,
                          !.msgs = << [kind |-> "error",
                                       text |-> <<"No workspace folder found">>] >>]
                  ELSE [IdleIgnore EXCEPT !.pc = "read", !.runs = ig[s].runs + 1,
                          !.relativePath = asRelativePath(path, workspaceFolders[1])]]
    /\ UNCHANGED ignoreFile
    /\ UNCHANGED <<genVars, treeVars, npmVars, nameVars, actVars, linkVars>>

\* lines 35-53: the read resolves, or rejects because there is no file, or
\* rejects for another reason; addToIgnore runs on to the return of line 46
\* or to the await of the write
IgnoreRead(s) ==
    /\ ig[s].pc = "read"
    /\ \E outcome \in IF ignoreFile.exists THEN {"ok", "failed"} ELSE {"not found"} :
         LET content == IF outcome = "ok" THEN BufferToString(ignoreFile.bytes) ELSE <<>>
             rec == [ig[s] EXCEPT !.readOutcome = outcome, !.content = content,
                                  !.atRead = ignoreFile.bytes]
         IN  ig' = [ig EXCEPT ![s] =
                      IF LinesInclude(IgnoreLines(content), rec.relativePath)
                      THEN [rec EXCEPT !.pc = "done",
                              !.msgs = << [kind |-> "info",
                                           text |-> <<"\"">> \o rec.relativePath
                                                      \o <<"\" already exists in ",
                                                           IgnoreFileName>>] >>]
                      ELSE [rec EXCEPT !.pc = "write",
                              !.newContent = NewContent(content, rec.relativePath)]]
    /\ UNCHANGED ignoreFile
    /\ UNCHANGED <<genVars, treeVars, npmVars, nameVars, actVars, linkVars>>

\* lines 53-57: the write resolves, or rejects
IgnoreWrite(s) ==
    /\ ig[s].pc = "write"
    /\ \E ok \in BOOLEAN :
         IF ok
         THEN /\ ignoreFile' = [exists |-> TRUE, bytes |-> BufferFromString(ig[s].newContent)]
              /\ ig' = [ig EXCEPT ![s] =
                          [@ EXCEPT !.pc = "done", !.wrote = TRUE,
                             !.before = ignoreFile.bytes,
                             !.after = BufferFromString(ig[s].newContent),
                             !.msgs = << [kind |-> "info",
                                          text |-> <<"Added \"">> \o ig[s].relativePath
                                                     \o <<"\" to ", IgnoreFileName>>] >>]]
         ELSE /\ ignoreFile' = ignoreFile
              /\ ig' = [ig EXCEPT ![s] =
                          [@ EXCEPT !.pc = "done",
                             !.msgs = << [kind |-> "error",
                                          text |-> <<"Failed to update ", IgnoreFileName,
                                                     ": ", "write failed">>] >>]]
    /\ UNCHANGED <<genVars, treeVars, npmVars, nameVars, actVars, linkVars>>

InitIgnore ==
    /\ GenIdle
    /\ workspaceFolders \in {<<>>, <<UriProj>>}
    /\ disk = DiskAtStart
    /\ TreeIdle
    /\ NpmIdle
    /\ NameIdle /\ ActIdle /\ LinkIdle
    /\ ignoreFile \in InitialIgnoreFiles
    /\ ig = [s \in Slots |-> IdleIgnore]

NextIgnore ==
    \/ \E s \in Slots : IgnoreInvoke(s)
    \/ \E s \in Slots : IgnoreRead(s)
    \/ \E s \in Slots : IgnoreWrite(s)

SpecIgnore == InitIgnore /\ [][NextIgnore]_vars

----------------------------------------------------------------------------
(* activate: the command table, tryRegister and the registration loop    *)
(* (extension.ts)                                                        *)

\* how many direct calls of tryRegister SpecTryRegister makes
MaxTryRegisterCalls == 3

\* A registration function, by what it does when called: the providers it
\* registers with the host, then the command ids it registers (in the order
\* of the calls), and the value it returns.
RegisterFn(providers, commandIds, result) ==
    [providers |-> providers, commandIds |-> commandIds, result |-> result]

registerHelloWorldCommand ==
    RegisterFn({}, <<"vssm-tool.helloWorld">>, "vssm-tool.helloWorld")

registerCursorPositionCommand ==
    RegisterFn({}, <<"vssm-tool.getCursorPosition">>, "vssm-tool.getCursorPosition")

\* registerGenerateConfigCommand(ctx, config): registers and returns config.commandName
registerGenerateConfigCommand(commandName) ==
    RegisterFn({}, <<commandName>>, commandName)

\* registers 'vssm-tool.runNpmTask' and ends without a return statement
registerNpmRunTaskCommand ==
    RegisterFn({}, <<"vssm-tool.runNpmTask">>, Undefined)

\* registerAddToIgnoreCommand(ctx, config): registers and returns config.commandName
registerAddToIgnoreCommand(commandName) ==
    RegisterFn({}, <<commandName>>, commandName)

registerMarkdownHoverProvider ==
    RegisterFn({"hover:markdown"}, <<>>, "markdownHover")

registerPackageLinkProvider ==
    RegisterFn({"links:json"}, <<>>, "packageLink")

registerConfigView ==
    RegisterFn({"vssm-tool-config"}, <<>>, "vssm-tool-config")

registerDefaultTemplateView ==
    RegisterFn({"vssm-tool-default-template"},
               <<"vssm-tool-default-template.refreshEntry",
                 "vssm-tool-default-template.openTemplate">>,
               "vssm-tool-default-template")

registerNodeDependenciesView ==
    RegisterFn({"vssm-tool-node-dependencies"},
               <<"vssm-tool-node-dependencies.refreshEntry",
                 "vssm-tool-node-dependencies.openPackageOnNpm",
                 "vssm-tool-node-dependencies-item.editEntry",
                 "vssm-tool-node-dependencies.addEntry",
                 "vssm-tool-node-dependencies-item.deleteEntry">>,
               "vssm-tool-node-dependencies")

registerCommandsView ==
    RegisterFn({"vssm-tool-cmd"}, <<>>, "vssm-tool-cmd")

registerFixedDataView ==
    RegisterFn({"vssm-tool-fixed-data"},
               <<"vssm-tool-fixed-data.refreshEntry",
                 "vssm-tool-fixed-data.addEntry">>,
               "vssm-tool-fixed-data")

registerVSCodeSettingsView ==
    RegisterFn({"vssm-tool-vscode-settings"},
               <<"vssm-tool-vscode-settings.refreshEntry",
                 "vssm-tool-vscode-settings.openFile">>,
               "vssm-tool-vscode-settings")

CommandEntry(name, register, enabled) ==
    [name |-> name, register |-> register, enabled |-> enabled]

\* the command table of activate, in the order Object.entries yields it
commands ==
    << CommandEntry("helloWorld", registerHelloWorldCommand, TRUE),
       CommandEntry("cursorPosition", registerCursorPositionCommand, TRUE),
       CommandEntry("generateEditorConfig",
                    registerGenerateConfigCommand("vssm-tool.generateEditorConfig"), TRUE),
       CommandEntry("generateWorkspaceConfig",
                    registerGenerateConfigCommand("vssm-tool.generateWorkspaceConfig"), TRUE),
       CommandEntry("generateClangFormat",
                    registerGenerateConfigCommand("vssm-tool.generateClangFormat"), TRUE),
       CommandEntry("npmRunTask", registerNpmRunTaskCommand, TRUE),
       CommandEntry("addToPrettierIgnore",
                    registerAddToIgnoreCommand("vssm-tool.addToPrettierIgnore"), TRUE),
       CommandEntry("addToGitIgnore",
                    registerAddToIgnoreCommand("vssm-tool.addToGitIgnore"), TRUE),
       CommandEntry("AddToVScodeIgnoreCommand",
                    registerAddToIgnoreCommand("vssm-tool.addToVScodeIgnore"), TRUE),
       CommandEntry("markdownHover", registerMarkdownHoverProvider, FALSE),
       CommandEntry("packageLink", registerPackageLinkProvider, TRUE),
       CommandEntry("configView", registerConfigView, TRUE),
       CommandEntry("defaultTemplateView", registerDefaultTemplateView, TRUE),
       CommandEntry("nodeDependenciesView", registerNodeDependenciesView, TRUE),
       CommandEntry("commandsView", registerCommandsView, TRUE),
       CommandEntry("fixedDataView", registerFixedDataView, TRUE),
       CommandEntry("vscodeSettingsView", registerVSCodeSettingsView, TRUE) >>

CommandNames == {commands[k].name : k \in 1..Len(commands)}

EntryOf(name) == CHOOSE k \in 1..Len(commands) : commands[k].name = name

\* command ids that another extension may have registered with the host
\* before this one activates
PreRegistered ==
    {"vssm-tool.runNpmTask", "vssm-tool-fixed-data.addEntry",
     "vssm-tool-vscode-settings.openFile", "other.command"}

\* vscode.commands.registerCommand, called for each id of a sequence in
\* turn: the ids registered until the host refuses one that already exists
RECURSIVE RegisterCommands(_, _)
RegisterCommands(ids, host) ==
    IF ids = <<>> THEN [host |-> host, threw |-> FALSE]
    ELSE IF Head(ids) \in host THEN [host |-> host, threw |-> TRUE]
    ELSE RegisterCommands(Tail(ids), host \cup {Head(ids)})

\* JavaScript truthiness of what a registration function returns
Truthy(result) == result # Undefined /\ result # ""

\* tryRegister(name, registerFn), on the state a of the activation
tryRegister(a, name, registerFn) ==
    IF name \in a.registeredCommands
    THEN [a EXCEPT !.registrationResults.skipped = @ + 1]
    ELSE LET  \* const result = registerFn(context)
             reg  == RegisterCommands(registerFn.commandIds, a.hostCommands)
             b    == [a EXCEPT !.calls[name] = @ + 1,
                               !.hostProviders =
                                   [p \in DOMAIN @ |->
                                       IF p \in registerFn.providers
                                       THEN @[p] + 1 ELSE @[p]],
                               !.hostCommands = reg.host]
             commandName == IF registerFn.result # Undefined
                            THEN registerFn.result ELSE name
         IN  IF reg.threw
             THEN [b EXCEPT !.pc = "threw"]
             ELSE IF Truthy(registerFn.result)
             THEN [b EXCEPT !.registeredCommands = @ \cup {commandName},
                            !.registrationResults.success = @ + 1]
             ELSE [b EXCEPT !.registrationResults.failed = @ + 1]

ProviderIds == UNION {commands[k].register.providers : k \in 1..Len(commands)}

\* const registeredCommands = new Set(); registrationResults = {0, 0, 0}
FreshActivation(host) ==
    [pc |-> "loop", i |-> 0,
     registeredCommands |-> {},
     registrationResults |-> [success |-> 0, skipped |-> 0, failed |-> 0],
     calls |-> [n \in CommandNames |-> 0],
     hostCommands |-> host,
     hostProviders |-> [p \in ProviderIds |-> 0]]

\* the extension host calls activate(context)
Activate ==
    /\ act.pc = "idle"
    /\ act' = FreshActivation(act.hostCommands)
    /\ UNCHANGED <<genVars, treeVars, npmVars, nameVars, ignoreVars, linkVars>>

\* one iteration of for (const [name, {register, enabled}] of Object.entries(commands))
RegistrationLoop ==
    /\ act.pc = "loop"
    /\ act.i < Len(commands)
    /\ LET e == commands[act.i + 1]
           a == [act EXCEPT !.i = @ + 1]
       IN  act' = IF e.enabled
                  THEN tryRegister(a, e.name, e.register)
                  ELSE [a EXCEPT !.registrationResults.skipped = @ + 1]
    /\ UNCHANGED <<genVars, treeVars, npmVars, nameVars, ignoreVars, linkVars>>

\* the loop is over: activate logs the registration results and returns
ActivateReturns ==
    /\ act.pc = "loop"
    /\ act.i = Len(commands)
    /\ act' = [act EXCEPT !.pc = "active"]
    /\ UNCHANGED <<genVars, treeVars, npmVars, nameVars, ignoreVars, linkVars>>

InitActivate ==
    /\ GenIdle
    /\ workspaceFolders = <<UriProj>>
    /\ disk = DiskAtStart
    /\ TreeIdle
    /\ NpmIdle
    /\ NameIdle /\ IgnoreIdle /\ LinkIdle
    /\ \E host \in SUBSET PreRegistered :
          act = [FreshActivation(host) EXCEPT !.pc = "idle"]

NextActivate ==
    \/ Activate
    \/ RegistrationLoop
    \/ ActivateReturns

SpecActivate == InitActivate /\ [][NextActivate]_vars

\* tryRegister called directly, with any name of the table and that entry's
\* registration function, any number of times
TryRegisterCall(name) ==
    /\ act.pc = "loop"
    /\ act.i < MaxTryRegisterCalls
    /\ act' = tryRegister([act EXCEPT !.i = @ + 1], name,
                          commands[EntryOf(name)].register)
    /\ UNCHANGED <<genVars, treeVars, npmVars, nameVars, ignoreVars, linkVars>>

InitTryRegister ==
    /\ GenIdle
    /\ workspaceFolders = <<UriProj>>
    /\ disk = DiskAtStart
    /\ TreeIdle
    /\ NpmIdle
    /\ NameIdle /\ IgnoreIdle /\ LinkIdle
    /\ act = FreshActivation({})

NextTryRegister == \E name \in CommandNames : TryRegisterCall(name)

SpecTryRegister == InitTryRegister /\ [][NextTryRegister]_vars

----------------------------------------------------------------------------
(* PackageLinkProvider.provideDocumentLinks (the package link provider)  *)

\* the longest document, in lines
MaxLines == 3

\* the lines a document is made of
OpenLine == "{"
DepsHeaderLine == "  \"dependencies\": {"
DepLine == "    \"lodash\": \"^4.17.21\","
NameLine == "  \"name\": \"proj\","
CloseLine == "  },"

DocLines == {OpenLine, DepsHeaderLine, DepLine, NameLine, CloseLine}

\* the documents: file name (as path segments) and text (as lines, i.e.
\* text.split('\n'))
LinkFileNames ==
    {<<"proj", "package.json">>, <<"proj", "tsconfig.json">>,
     <<"proj", "my-package.json">>}

LinkTexts == UNION {[1..n -> DocLines] : n \in 0..MaxLines}

\* path.basename
basename(fileName) == fileName[Len(fileName)]

\* the package names /"([^"]+)":\s*"([^"]+)"/g finds in a line (match[1])
RegexMatches(line) ==
    IF line = DepLine THEN <<"lodash">>
    ELSE IF line = NameLine THEN <<"name">>
    ELSE <<>>

\* line.includes('"dependencies"') || line.includes('"devDependencies"')
IncludesDependencies(line) == line = DepsHeaderLine

\* line.includes('}')
IncludesCloseBrace(line) == line = CloseLine

\* isDependencyLine: walk up from the line itself to the nearest line that
\* holds a dependencies keyword, stopping at a line that holds '}'
RECURSIVE isDependencyLine(_, _)
isDependencyLine(allLines, i) ==
    IF i < 1 THEN FALSE
    ELSE IF IncludesDependencies(allLines[i]) THEN TRUE
    ELSE IF IncludesCloseBrace(allLines[i]) THEN FALSE
    ELSE isDependencyLine(allLines, i - 1)

ModulePathOf(packageName) ==
    IF packageName = "lodash" THEN LodashModulePath ELSE "/proj/node_modules/name"

ReadmePathOf(packageName) ==
    IF packageName = "lodash" THEN "/proj/node_modules/lodash/README.md"
    ELSE "/proj/node_modules/name/README.md"

\* getPackagePath: the path the link targets and the number of
\* fs.existsSync calls made; it throws without a workspace folder
getPackagePath(packageName) ==
    IF workspaceFolders = <<>>
    THEN [threw |-> TRUE, path |-> "", accesses |-> 0]
    ELSE IF ReadmePathOf(packageName) \in disk
    THEN [threw |-> FALSE, path |-> ReadmePathOf(packageName), accesses |-> 1]
    ELSE [threw |-> FALSE, path |-> ModulePathOf(packageName), accesses |-> 2]

\* the body of the for loop for one line: every match of a dependency line
\* gives one link
RECURSIVE ScanMatches(_, _)
ScanMatches(l, matches) ==
    IF matches = <<>> \/ l.pc = "threw" THEN l
    ELSE IF ~isDependencyLine(l.lines, l.lineIndex + 1) THEN ScanMatches(l, Tail(matches))
    ELSE LET p == getPackagePath(Head(matches))
         IN  IF p.threw
             THEN [l EXCEPT !.pc = "threw", !.error = "No workspace folder found"]
             ELSE ScanMatches(
                      [l EXCEPT !.links = Append(@, [line |-> l.lineIndex,
                                                     name |-> Head(matches),
                                                     target |-> p.path]),
                                !.fsAccesses = @ + p.accesses],
                      Tail(matches))

\* the loop condition: lineIndex < lines.length, and also the token (a loop
\* that a cancellation would stop)
LoopContinues_Cancellable(l) == l.lineIndex < Len(l.lines) /\ ~l.token

\* the loop condition: lineIndex < lines.length
LoopContinues(l) == l.lineIndex < Len(l.lines)

\* the host calls provideDocumentLinks(document, token): the file-name test,
\* then the one test of the token, then the scan is set up
ProvideDocumentLinks ==
    /\ link.pc = "idle"
    /\ \E fileName \in LinkFileNames, lines \in LinkTexts, requested \in BOOLEAN :
          LET l == [IdleLink EXCEPT !.fileName = fileName, !.lines = lines,
                                    !.token = requested, !.tokenAtCall = requested]
          IN  link' = IF basename(fileName) # "package.json"
                      THEN [l EXCEPT !.pc = "returned"]
                      ELSE IF requested
                      THEN [l EXCEPT !.pc = "returned", !.consults = @ + 1]
                      ELSE [l EXCEPT !.pc = "scan", !.consults = @ + 1]
    /\ UNCHANGED <<genVars, treeVars, npmVars, nameVars, ignoreVars, actVars>>

\* the host cancels the request while the provider is at work
CancelRequest ==
    /\ link.pc = "scan"
    /\ ~link.token
    /\ link' = [link EXCEPT !.token = TRUE, !.cancelledAt = link.lineIndex]
    /\ UNCHANGED <<genVars, treeVars, npmVars, nameVars, ignoreVars, actVars>>

\* one iteration of the for loop over the lines
ScanLine ==
    /\ link.pc = "scan"
    /\ LoopContinues(link)
    /\ LET l == ScanMatches(link, RegexMatches(link.lines[link.lineIndex + 1]))
       IN  link' = IF l.pc = "threw" THEN l ELSE [l EXCEPT !.lineIndex = @ + 1]
    /\ UNCHANGED <<genVars, treeVars, npmVars, nameVars, ignoreVars, actVars>>

\* the loop is left: return links
ReturnLinks ==
    /\ link.pc = "scan"
    /\ ~LoopContinues(link)
    /\ link' = [link EXCEPT !.pc = "returned", !.result = link.links]
    /\ UNCHANGED <<genVars, treeVars, npmVars, nameVars, ignoreVars, actVars>>

InitLink ==
    /\ GenIdle
    /\ workspaceFolders \in {<<>>, <<UriProj>>}
    /\ disk \in {DiskAtStart, DiskAtStart \cup {LodashModulePath},
                 DiskAtStart \cup {LodashModulePath, ReadmePathOf("lodash")}}
    /\ TreeIdle
    /\ NpmIdle
    /\ NameIdle /\ IgnoreIdle /\ ActIdle
    /\ link = IdleLink

NextLink ==
    \/ ProvideDocumentLinks
    \/ CancelRequest
    \/ ScanLine
    \/ ReturnLinks

SpecLink == InitLink /\ [][NextLink]_vars

----------------------------------------------------------------------------
(* Properties of generateConfig *)

Done(s) == h[s].pc = "done"
InFlight(s) == h[s].pc \notin {"idle", "done"}

\* the bytes of every template file of the model
TemplateBlobs == { FileBytes(path) : path \in TemplatePaths }

\* the invocation reached writeFile and no generated content applies: the
\* command has no generator, or the generator returned an empty buffer
NoAutoContentApplies(s) ==
    /\ h[s].statType = "NotFound"
    /\ h[s].content = <<>>
    /\ h[s].failure # <<AutoErrorMessage>>

\* C1: an invocation that found the target a regular file when it was invoked
\* passes nothing to writeFile, reads no template, and shows exactly the
\* message 'A <fileName> file already exists in this workspace.'
C1_ExistingTargetRefused ==
    \A s \in Slots :
        h[s].existedAtInvoke =>
            /\ h[s].writes = <<>>
            /\ h[s].written = 0
            /\ h[s].reads = <<>>
            /\ h[s].pc \in {"stat", "done"}
            /\ Done(s) =>
                 h[s].msgs = << "A " \o h[s].fileName \o " file already exists in this workspace." >>
            /\ ~Done(s) => h[s].msgs = <<>>

C1_Witness ==
    \E s \in Slots :
        /\ Done(s)
        /\ h[s].existedAtInvoke
        /\ h[s].statType = "File"
        /\ Len(h[s].msgs) = 1
        /\ fs[h[s].configUri] = FileEntry(OldBytes)

\* C2 as stated: an invocation whose stat failed with EntryNotFound and to
\* which no generated content applies has, when it ends, written the target
\* exactly once, with the bytes of the selected template
C2_WritesTemplateOnce ==
    \A s \in Slots :
        (Done(s) /\ NoAutoContentApplies(s)) =>
            /\ h[s].written = 1
            /\ h[s].writes = <<FileBytes(h[s].templatePath)>>

\* C2 amended: when moreover the read of the selected template succeeded, the
\* invocation passes exactly one buffer to writeFile, the bytes read from the
\* selected template, and the target holds these bytes at the moment the
\* write completes
C2_WritesTemplateBytesRead ==
    \A s \in Slots :
        (NoAutoContentApplies(s) /\ h[s].templateRead) =>
            /\ h[s].templatePath = h[s].reads[Len(h[s].reads)]
            /\ h[s].writes = <<FileBytes(h[s].templatePath)>>
            /\ h[s].written <= 1
            /\ (h[s].written = 1 /\ writeCount[h[s].configUri] = 1) =>
                  fs[h[s].configUri] = FileEntry(FileBytes(h[s].templatePath))

C2_Witness ==
    \E s \in Slots :
        /\ Done(s)
        /\ NoAutoContentApplies(s)
        /\ h[s].written = 1
        /\ h[s].templatePath = "/home/u/other.tpl"
        /\ fs[h[s].configUri] = FileEntry(FileBytes("/home/u/other.tpl"))

C4_NeverOverwrites ==
    /\ overwrites = 0
    /\ \A u \in DOMAIN writeCount : writeCount[u] <= 1

\* C5: a failed operation of generateConfig (stat with another error than
\* EntryNotFound, the read of the selected template, the auto generator, the
\* write of the target) is followed by no completed write, and the invocation
\* ends with exactly one error message, the text of the failure
C5_FailuresReported ==
    \A s \in Slots :
        h[s].failure # <<>> =>
            /\ h[s].written = 0
            /\ h[s].pc \in {"auto", "done"}
            /\ Done(s) => h[s].msgs = h[s].failure
            /\ h[s].failure[1] \in
                 { "Unable to stat " \o h[s].configUri,
                   "ENOENT: no such file or directory, open '" \o h[s].templatePath \o "'",
                   "auto content generator failed",
                   "Unable to write file " \o h[s].configUri }

C5_Witness ==
    \E s, t \in Slots :
        /\ Done(s) /\ Done(t)
        /\ h[s].failure = <<"Unable to write file " \o h[s].configUri>>
        /\ h[s].msgs = h[s].failure
        /\ h[t].templateRead = FALSE
        /\ h[t].reads # <<>>
        /\ h[t].msgs = h[t].failure
        /\ h[t].failure # <<>>

\* C6 as stated: every buffer a generator passes to writeFile is the bytes of
\* a template file
C6_AlwaysTemplateCopy ==
    \A s \in Slots :
        \A i \in 1..Len(h[s].writes) : h[s].writes[i] \in TemplateBlobs

\* C6 amended: every buffer written by the .clang-format and .code-workspace
\* generators is the bytes of a template file; so is every buffer written by
\* the .editorconfig generator unless generateEditorConfig.generateAuto is
\* true, in which case the buffer is synthesized from the settings and is no
\* template
C6_TemplateCopyUnlessAuto ==
    \A s \in Slots :
        \A i \in 1..Len(h[s].writes) :
            IF config.commandName = "vssm-tool.generateEditorConfig" /\ h[s].st.generateAuto
            THEN h[s].writes[i] \notin TemplateBlobs /\ h[s].writes[i] # <<>>
            ELSE h[s].writes[i] \in TemplateBlobs

C6_Witness ==
    \E s, t \in Slots :
        /\ Done(s) /\ Done(t)
        /\ h[s].written = 1 /\ h[t].written = 1
        /\ h[s].writes[1] \in TemplateBlobs
        /\ h[t].writes[1] \notin TemplateBlobs

\* the lines the generator writes for the first editor profile, with the
\* end of line of the platform
ExpectedAutoText ==
    "# EditorConfig is awesome: https://EditorConfig.org\n\n# top-most EditorConfig file\nroot = true\n\n[*]\nindent_style = space\nindent_size = 4\nend_of_line = lf\ncharset = utf-8\ntrim_trailing_whitespace = false\ninsert_final_newline = false"

\* C7: for the .editorconfig generator, with generateAuto true the buffer
\* written is the one generated from the settings read and no template is
\* read; with generateAuto false the generator returns an empty buffer and
\* the invocation goes on to read a template, whose bytes are what it writes
C7_GenerateAutoSetting ==
    \A s \in Slots :
        (h[s].autoRan /\ h[s].failure # <<"auto content generator failed">>) =>
            IF h[s].st.generateAuto
            THEN /\ h[s].content # <<>>
                 /\ h[s].reads = <<>>
                 /\ h[s].templateRead = FALSE
                 /\ \A i \in 1..Len(h[s].writes) : h[s].writes[i] = h[s].content
                 /\ (h[s].st.insertSpaces /\ h[s].st.eol = "auto")
                       => h[s].content = <<ExpectedAutoText>>
            ELSE /\ h[s].content = <<>>
                 /\ h[s].pc # "writeAuto"
                 /\ Done(s) => h[s].reads # <<>>
                 /\ \A i \in 1..Len(h[s].writes) :
                        /\ h[s].templateRead
                        /\ h[s].writes[i] = FileBytes(h[s].templatePath)

C7_Witness ==
    \E s, t \in Slots :
        /\ Done(s) /\ Done(t)
        /\ h[s].st.generateAuto /\ h[s].written = 1
        /\ h[s].writes = <<<<ExpectedAutoText>>>>
        /\ h[t].autoRan /\ ~h[t].st.generateAuto /\ h[t].written = 1
        /\ h[t].writes[1] \in TemplateBlobs

\* the template the claim C8 selects: the custom path when it is set and
\* could be read, else the bundled template when the words in defaultWords
\* name it, else the value of the setting 'template'
C8_Expected(s, defaultWords) ==
    IF h[s].customTemplatePath # "" /\ h[s].customRead = "ok"
    THEN h[s].customTemplatePath
    ELSE IF h[s].templateSetting \in defaultWords
         THEN "/ext/" \o config.defaultTemplatePath
         ELSE h[s].templateSetting

\* the invocation has chosen its template
C8_Chosen(s) == h[s].wcRead /\ h[s].pc \in {"read", "write", "done"}

\* C8 as stated: 'default' in any letter case selects the bundled template,
\* any other value of the setting is the path of the template
C8_TemplatePrecedence ==
    \A s \in Slots :
        C8_Chosen(s) => h[s].templatePath = C8_Expected(s, {"default", "DEFAULT"})

\* C8 amended: the empty value as well selects the bundled template; and an
\* unreadable custom path shows no message
C8_TemplatePrecedenceEmptyIsDefault ==
    \A s \in Slots :
        C8_Chosen(s) =>
            /\ h[s].templatePath = C8_Expected(s, {"", "default", "DEFAULT"})
            /\ (h[s].customRead = "failed" /\ h[s].pc \in {"read", "write"}) => h[s].msgs = <<>>
            /\ (h[s].customTemplatePath # "") = (h[s].customRead # "none")

C8_Witness ==
    \E s, t \in Slots :
        /\ h[s].pc = "write" /\ h[s].customRead = "failed"
        /\ h[s].templateSetting = "DEFAULT"
        /\ h[s].templatePath = "/ext/" \o config.defaultTemplatePath
        /\ h[t].pc = "write" /\ h[t].customRead = "ok"
        /\ h[t].templatePath = "/home/u/custom.tpl"

----------------------------------------------------------------------------
(* Properties of the tree views *)

\* C9 as stated: tree providers hold no state across callbacks: in every
\* view, a root getChildren call returns nodes constructed fresh from the
\* current file system and settings, whatever calls and commands came before
C9_RootsConstructedFresh ==
    [][ /\ GetChildrenFixed => returned'.nodes = SampleData
        /\ GetChildrenSettings =>
              returned'.nodes = scanSettingsFiles(disk, workspaceFolders)
        /\ GetChildrenDeps =>
              returned'.nodes = DepsRoot(disk, workspaceFolders).nodes ]_vars

\* C9 amended: only the dependencies view constructs its root nodes fresh on
\* every call; the fixed-data view returns its stored tree as the earlier
\* add, delete and edit commands left it, and builds the sample tree only when
\* the stored tree is empty; the settings view returns the list of its last
\* scan, and scans the file system only when that list is empty
C9_RootsFromProviderState ==
    [][ /\ GetChildrenFixed =>
              returned'.nodes = IF data = <<>> THEN SampleData ELSE data
        /\ GetChildrenSettings =>
              returned'.nodes = IF settingsNodes = <<>>
                                THEN scanSettingsFiles(disk, workspaceFolders)
                                ELSE settingsNodes
        /\ GetChildrenDeps =>
              returned'.nodes = DepsRoot(disk, workspaceFolders).nodes ]_vars

\* a root call of the fixed-data view, after a command, returned a tree
\* that is not the sample tree
C9_Witness ==
    /\ returned.view = "vssm-tool-fixed-data"
    /\ treeCommands > 0
    /\ returned.nodes = data
    /\ data # <<>>
    /\ data # SampleData

----------------------------------------------------------------------------
(* Properties of the Run NPM Task command *)

\* the value of the declared setting runNpmTask.npmTaskSource: the user's, or
\* the declared default 'package.json'
C10_DeclaredValue ==
    IF settings["runNpmTask.npmTaskSource"] # Undefined
    THEN settings["runNpmTask.npmTaskSource"]
    ELSE "package.json"

\* C10: the setting runNpmTask.npmTaskSource selects the source: when the
\* quick pick is shown, with value 'tasks.json' it lists tasks read from
\* .vscode/tasks.json, with value 'package.json' (the default) the scripts of
\* package.json
C10_DeclaredSettingSelectsSource ==
    npm.pc = "pick" =>
        IF C10_DeclaredValue = "tasks.json"
        THEN /\ npm.title = "Select npm task to run"
             /\ \A i \in 1..Len(npm.items) : npm.items[i].task # <<>>
        ELSE /\ npm.title = "Select npm script to run"
             /\ \A i \in 1..Len(npm.items) : npm.items[i].task = <<>>

----------------------------------------------------------------------------
(* Properties of the name of the workspace-config target *)

\* the last non-empty '/'-separated segment of the folder path, or
\* 'workspace', followed by '.code-workspace'
C11_ExpectedName ==
    LET p    == naming.path
        ends == { i \in 1..Len(p) : p[i] # "/" /\ (i = Len(p) \/ p[i + 1] = "/") }
        e    == CHOOSE i \in ends : \A j \in ends : j <= i
        b    == CHOOSE i \in 1..e : /\ \A j \in i..e : p[j] # "/"
                                    /\ (i = 1 \/ p[i - 1] = "/")
    IN  IF ends = {} THEN <<"workspace", ".code-workspace">>
        ELSE SubSeq(p, b, e) \o <<".code-workspace">>

\* C11: the workspace-config target is named '<name>.code-workspace', <name>
\* being the last non-empty segment of the folder's path ('workspace' when
\* there is none), and the existence check and the write use that same name:
\* the path checked, and the path written, is the folder's path, '/', and that
\* name
C11_TargetNamedAfterFolder ==
    /\ naming.pc \in {"write", "done"} =>
          naming.statPath = naming.path \o <<"/">> \o C11_ExpectedName
    /\ (naming.pc = "done" /\ naming.msgs = <<>>) =>
          naming.writePath = naming.path \o <<"/">> \o C11_ExpectedName

----------------------------------------------------------------------------
(* Properties of addToIgnore *)

\* the bytes hold the path on a line of its own, the line ending in LF, in
\* CRLF, or at the end of the file
C12_ListedOnOwnLine(bytes, path) ==
    \E i \in 1..Len(SplitText(bytes, "\n")) :
        \/ SplitText(bytes, "\n")[i] = path
        \/ SplitText(bytes, "\n")[i] = path \o <<"\r">>

\* C12: addToIgnore does not duplicate entries: when the ignore file it read
\* lists the relative path on a line of its own, with LF or with CRLF line
\* endings, the invocation writes nothing and shows the 'already exists'
\* message
C12_NoDuplicateEntries ==
    \A s \in Slots :
        (/\ ig[s].pc \in {"write", "done"}
         /\ ig[s].readOutcome = "ok"
         /\ C12_ListedOnOwnLine(ig[s].atRead, ig[s].relativePath))
        => /\ ig[s].pc = "done"
           /\ ~ig[s].wrote
           /\ ig[s].msgs = << [kind |-> "info",
                               text |-> <<"\"">> \o ig[s].relativePath
                                          \o <<"\" already exists in ", ".gitignore">>] >>

\* C13: when the path is not yet listed addToIgnore only appends: the file
\* after the write is the file before it, one '\n' if that was non-empty and
\* did not end with '\n', the relative path and '\n'; here for a write that
\* no other write came before since the invocation's read
C13_OnlyAppends ==
    \A s \in Slots :
        (/\ ig[s].wrote
         /\ ig[s].before = ig[s].atRead
         /\ ~C12_ListedOnOwnLine(ig[s].before, ig[s].relativePath))
        => ig[s].after =
              ig[s].before
              \o (IF ig[s].before # <<>> /\ ig[s].before[Len(ig[s].before)] # "\n"
                  THEN <<"\n">> ELSE <<>>)
              \o ig[s].relativePath \o <<"\n">>

\* the non-empty lines of a file
C14_Lines(bytes) ==
    { SplitText(bytes, "\n")[i] : i \in 1..Len(SplitText(bytes, "\n")) } \ {<<>>}

\* C14: addToIgnore never removes existing entries, whatever the outcome of
\* its read (success, file not found, any other error): every line of the
\* ignore file before the write is a line of it after the write; here for a
\* write that no other write came before since the invocation's read
C14_NeverRemovesEntries ==
    \A s \in Slots :
        (ig[s].wrote /\ ig[s].before = ig[s].atRead)
        => C14_Lines(ig[s].before) \subseteq C14_Lines(ig[s].after)

\* C15: no lost update: when two invocations for two different paths have
\* both completed with the success message, the ignore file contains both
\* paths; here for invocations whose reads did not fail
C15_NoLostUpdate ==
    \A s, t \in Slots :
        (/\ s # t
         /\ ig[s].pc = "done" /\ ig[s].wrote /\ ig[s].readOutcome # "failed"
         /\ ig[t].pc = "done" /\ ig[t].wrote /\ ig[t].readOutcome # "failed"
         /\ ig[s].relativePath # ig[t].relativePath)
        => /\ ig[s].relativePath \in C14_Lines(ignoreFile.bytes)
           /\ ig[t].relativePath \in C14_Lines(ignoreFile.bytes)

----------------------------------------------------------------------------
(* Properties of the outcome of generateConfig *)

\* C16: every invocation of generateConfig ends with exactly one visible
\* outcome: the target was written once and no message was shown, or nothing
\* was written and one error message was shown; also when the target exists
\* and is no regular file
C16_OneVisibleOutcome ==
    \A s \in Slots :
        Done(s) => \/ (h[s].written = 1 /\ h[s].msgs = <<>>)
                   \/ (h[s].written = 0 /\ Len(h[s].msgs) = 1)


----------------------------------------------------------------------------
(* Properties of activate *)

\* activate has run its loop to the end
AfterLoop == act.pc = "active"

DisabledEntries == {k \in 1..Len(commands) : ~commands[k].enabled}

EnabledEntries == {k \in 1..Len(commands) : commands[k].enabled}

\* the host holds every provider and command of the entry's registration function
Registered(k) ==
    LET f == commands[k].register
    IN  /\ \A p \in f.providers : act.hostProviders[p] >= 1
        /\ \A j \in 1..Len(f.commandIds) : f.commandIds[j] \in act.hostCommands

\* C17 (as stated): after the loop success + skipped + failed is the number
\* of table entries, skipped counts the disabled entries, failed counts only
\* entries whose registration function did not register, and when every
\* enabled function registered, failed is 0 and success is the number of
\* enabled entries.
C17_RegistrationAccounting ==
    AfterLoop =>
        LET r == act.registrationResults
        IN  /\ r.success + r.skipped + r.failed = Len(commands)
            /\ r.skipped = Cardinality(DisabledEntries)
            /\ r.failed <= Cardinality({k \in EnabledEntries : ~Registered(k)})
            /\ (\A k \in EnabledEntries : Registered(k))
                   => r.failed = 0 /\ r.success = Cardinality(EnabledEntries)

\* a name for which an earlier tryRegister counted a success
RegisteredSuccessfully(name) ==
    /\ act.pc = "loop"
    /\ act.calls[name] >= 1
    /\ Truthy(commands[EntryOf(name)].register.result)

----------------------------------------------------------------------------
(* Properties of the package link provider *)

\* the provider was called on a document named package.json
OnPackageJson == link.pc # "idle" /\ basename(link.fileName) = "package.json"

\* C19: a call of provideDocumentLinks consults the token once, before the
\* scan, and only on a document named package.json (which it tests first).
\* If cancellation was requested at the call or the document has another
\* name, it returns the empty list with no line scanned and no file-system
\* access. A call that passed the check returns only after the last line,
\* whether or not cancellation was requested meanwhile.
C19_TokenConsultedOnceBeforeScan ==
    /\ link.consults <= 1
    /\ OnPackageJson => link.consults = 1
    /\ (link.pc # "idle" /\ (link.tokenAtCall \/ ~OnPackageJson))
          => /\ link.pc = "returned"
             /\ link.result = <<>>
             /\ link.lineIndex = 0
             /\ link.fsAccesses = 0
    /\ (link.pc = "returned" /\ OnPackageJson /\ ~link.tokenAtCall)
          => /\ link.lineIndex = Len(link.lines)
             /\ link.result = link.links

\* C19 witness: cancellation was requested after the check while lines were
\* still to be scanned, and the provider returned links found on a later line
C19_Witness ==
    /\ link.pc = "returned"
    /\ ~link.tokenAtCall
    /\ link.token
    /\ link.cancelledAt = 0
    /\ link.lineIndex = MaxLines
    /\ link.fsAccesses > 0
    /\ link.result # <<>>

====
